---- MODULE Spec2Model ----
(***************************************************************************)
(* State-machine model of the HPB scraper: the parallel scraping           *)
(* orchestrator (parallel_scraper.py), the interactive application's       *)
(* processing state and action handlers (app_state_manager.py,             *)
(* app_action_handlers.py, app.py) and the memory optimizer hook           *)
(* (memory_optimizer.py).                                                  *)
(***************************************************************************)
EXTENDS Integers, Sequences, FiniteSets, TLC

(***************************************************************************)
(* Program constants                                                       *)
(***************************************************************************)
\* config.py: CHUNK_SIZE
CHUNK_SIZE == 20
\* config.py: MAX_CACHE_SIZE
MAX_CACHE_SIZE == 1000
\* config.py: MAX_WORKERS = calculate_optimal_workers(); max(2, cpu_count // 2)
\* on a host with 2..4 GB of memory and at most 5 cores
MAX_WORKERS == 2
\* config.py: MEMORY_EFFICIENT_MODE, the default of the configuration
MEMORY_EFFICIENT_MODE == FALSE
\* parallel_scraper.py: retries = 3 in _scrape_salon_with_retry
retries == 3
\* parallel_scraper.py: the literal 10 in the batch size formula
MIN_BATCH == 10
\* parallel_scraper.py: memory_percent default when no sample is available
DEFAULT_MEMORY_PERCENT == 50

(***************************************************************************)
(* Bounds of the model                                                     *)
(***************************************************************************)
\* longest URL list of a run with free interleaving and free site behaviour
MaxUrls == 3
\* length of the URL list of the run that needs more than one batch
ManyUrls == 11
\* number of scrape_details runs one orchestrator performs in the application
MaxRuns == 1
\* number of orchestrators a session constructs
MaxScrapers == 2
\* entries of other areas and salons already in the URL cache at start
OtherCacheEntries == 600

Min(a, b) == IF a < b THEN a ELSE b
Max(a, b) == IF a > b THEN a ELSE b

RECURSIVE Pow2(_)
Pow2(n) == IF n = 0 THEN 1 ELSE 2 * Pow2(n - 1)

Range(s) == {s[k] : k \in 1..Len(s)}

\* behaviour of the target site (and of the unlocked URL cache) for one URL:
\*   "ok"    detail extraction returns a record
\*   "down"  the page cannot be fetched, extraction returns None
\*   "flaky" every attempt may return a record, return None or raise inside the
\*           try block, and the cache lookup before the loop may raise
SiteKinds == {"ok", "down", "flaky"}

VARIABLES
  \* ---- ParallelScraper (the orchestrator the session currently holds) ----
  _stop_event,        \* threading.Event
  _is_processing,     \* bool
  _total_urls,
  _processed_urls,
  _success_count,
  _error_count,
  _progress_callback, \* TRUE when the progress bridge is registered
  \* ---- ThreadPoolExecutor of the orchestrator ----
  queue,              \* work items submitted and not yet started (FIFO)
  running,            \* work items inside _scrape_salon_with_retry
  \* ---- one call of scrape_salon_details_parallel ----
  pc,                 \* position of the calling thread
  salon_urls,         \* the argument
  batch_size,
  batch_i,            \* index i of the batch loop
  futures,            \* URLs of the current batch whose future was not yet yielded
  finished,           \* completed futures of the batch, in completion order
  results,
  run_no,             \* number of the call on this orchestrator
  \* ---- environment ----
  site,               \* URL -> SiteKinds
  url_cache,          \* URLs with a "salon:<url>" entry in url_cache
  cache_other,        \* number of further entries of url_cache
  memory_percent,     \* memory usage the run's batch size is computed from
  \* ---- session state of the application ----
  PROGRESS_INITIAL_STATE, \* the module level dict every session state aliases
  has_scraper,        \* 'scraper' in st.session_state
  scraper_no,         \* number of orchestrators constructed so far
  old_scrapers,       \* orchestrators whose handle the session dropped
  ui_pc,              \* position of the script thread in main()
  discovered,         \* salon_urls found by the discovery of the refresh
  \* ---- history ----
  submit_count,       \* URL -> number of executor.submit calls of this run
  task_log,           \* URL -> how its task of this run ended
  stop_called,        \* stop() was called during this run
  stop_observed,      \* the calling thread saw _should_stop() return True
  last_start,         \* what the last handle_start found and did
  last_stop,          \* what the last handle_stop found and did
  flow_outcome,       \* how the scrape flow of the last script run ended
  \* ---- components beside the orchestrator ----
  secrets,            \* st.secrets, the settings store
  \* ---- an LRUCache (memory_optimizer.py) ----
  lru,                \* self.cache: the OrderedDict, oldest entry first
  lru_max,            \* self.max_size
  lru_hits,           \* self.hits
  lru_misses,         \* self.misses
  lru_log,            \* history: the operations performed on the cache
  \* ---- one call of ParallelScraper.scrape_salon_urls ----
  su_pc,              \* position of the calling thread in the call
  area_url,           \* the argument
  page_num,           \* page the scraping engine fetches next
  su_urls,            \* salon URLs the scraping engine collected so far
  fetches,            \* HTTPClient.get calls of the scraping engine in this call
  listing,            \* area URL -> the pages of the target site, a list of URLs each
  calls,              \* history: area, fetches and result of every call that returned
  \* ---- one call of HTTPClient.get (http_client.py) ----
  http_pc,            \* "idle", "loop" (inside the for loop) or "returned"
  http_attempt,       \* the loop variable attempt
  http_log,           \* history: what each session.get of the call produced
  http_sleeps,        \* history: the argument of each time.sleep of the call
  http_ret,           \* the value the call returned
  \* ---- one call of HTTPClient.calculate_backoff ----
  bo_attempt,         \* the argument attempt
  bo_draw,            \* the value random() takes inside random.uniform, in steps
  bo_result,          \* what the call computed: delay and the returned value
  \* ---- a RateLimiter and the threads that call wait() (parallel_scraper.py) ----
  rl_clock,           \* time.time(), in ticks
  rate_limit,         \* self.rate_limit
  last_request_time,  \* self.last_request_time
  rl_lock,            \* self._lock: the thread that holds it, or NoThread
  rl_pc,              \* thread -> position in wait()
  rl_wake,            \* thread -> the earliest instant its time.sleep returns
  rl_log,             \* history: thread, recorded time and return instant per call
  \* ---- an AreaManager and one call on it (area_manager.py) ----
  am_df,              \* self.df: the rows of the table
  am_csv,             \* the file at self.csv_path: the rows of text under the header
  am_data,            \* the argument data
  am_op,              \* the method that was called, or None
  am_result,          \* the tuple it returned
  \* ---- one call of BeautyScraper.scrape_salon_urls (scraper.py) ----
  bs_pc,              \* position of the call
  bs_site,            \* the pages the target site serves for the area
  bs_stop,            \* what should_stop() returns when it is called
  bs_last,            \* last_page_num
  bs_page,            \* page_num of the page loop
  bs_item,            \* item_idx of the item loop, counted from 1
  bs_urls,            \* salon_urls
  bs_log,             \* history: the evaluations of should_stop, fetches and items
  bs_ret,             \* the returned list, or NotReturned
  \* ---- progress of one scrape_salon_details_parallel call, thread by thread ----
  pg_pc,              \* position of the calling thread
  pg_callback,        \* self._progress_callback is set
  pg_stop,            \* self._stop_event
  pg_processing,      \* self._is_processing
  pg_total,           \* self._total_urls
  pg_processed,       \* self._processed_urls
  pg_success,         \* self._success_count
  pg_error,           \* self._error_count
  pg_queue,           \* submitted tasks no worker has started
  pg_running,         \* the worker threads inside a task
  pg_finished,        \* results of the completed futures not yet yielded
  pg_lock,            \* self._progress_lock: the thread that holds it, or "free"
  pg_in_cb,           \* the threads inside the progress callback
  pg_cb_log,          \* history: the invocations of the progress callback
  pg_info,            \* what the last _get_progress_info returned
  pg_in,              \* counters a snapshot is taken of outside a run
  pg_end,             \* history: how the call left its try block
  \* ---- memory_monitor and the batch size of one scrape_salon_details_parallel ----
  mm_pc,              \* position of the call: "idle", "sampled" (line 321), "sized"
  mm_clock,           \* time.time(), in seconds
  mm_last_check_time, \* memory_monitor.last_check_time
  mm_usage,           \* psutil.virtual_memory().percent at this moment
  mm_psutil,          \* psutil.virtual_memory() returns (does not raise)
  mm_n,               \* len(salon_urls)
  mm_memory_info,     \* what check_memory_usage() of line 335 returned
  mm_memory_percent,  \* memory_percent of line 336
  mm_batch_size,      \* batch_size of line 340
  \* ---- the sessions of one server process (app_state_manager.py) ----
  ss_dict,            \* the dict object the module binds to PROGRESS_INITIAL_STATE
  ss_ref,             \* session -> what its processing_state refers to, or "unset"
  ss_own,             \* history: session -> the state its own calls alone produce
  \* ---- worker tasks inside get and put of the shared url_cache ----
  rc_pc,              \* task -> the statement of get or put it executes next
  rc_key,             \* task -> the argument key of its call
  rc_value,           \* task -> the argument value of put, the local value of get
  rc_calls,           \* calls of get and put started so far
  rc_failed           \* history: the calls that raised, with the statement

orch_vars == <<_stop_event, _is_processing, _total_urls, _processed_urls,
               _success_count, _error_count, _progress_callback>>
pool_vars == <<queue, running>>
run_vars == <<pc, salon_urls, batch_size, batch_i, futures, finished, results, run_no>>
env_vars == <<site, url_cache, cache_other, memory_percent>>
app_vars == <<PROGRESS_INITIAL_STATE, has_scraper, scraper_no, old_scrapers, ui_pc,
              discovered>>
hist_vars == <<submit_count, task_log, stop_called, stop_observed, last_start,
               last_stop, flow_outcome>>
prog_vars == <<orch_vars, pool_vars, run_vars, env_vars, app_vars, hist_vars>>
lru_vars == <<lru, lru_max, lru_hits, lru_misses, lru_log>>
disc_vars == <<su_pc, area_url, page_num, su_urls, fetches, listing, calls>>
http_vars == <<http_pc, http_attempt, http_log, http_sleeps, http_ret>>
bo_vars == <<bo_attempt, bo_draw, bo_result>>
rl_vars == <<rl_clock, rate_limit, last_request_time, rl_lock, rl_pc, rl_wake, rl_log>>
am_vars == <<am_df, am_csv, am_data, am_op, am_result>>
bs_vars == <<bs_pc, bs_site, bs_stop, bs_last, bs_page, bs_item, bs_urls, bs_log, bs_ret>>
pg_vars == <<pg_pc, pg_callback, pg_stop, pg_processing, pg_total, pg_processed,
             pg_success, pg_error, pg_queue, pg_running, pg_finished, pg_lock, pg_in_cb,
             pg_cb_log, pg_info, pg_in, pg_end>>
first_vars == <<secrets, lru_vars, disc_vars, http_vars, bo_vars, rl_vars, am_vars, bs_vars>>
mm_vars == <<mm_pc, mm_clock, mm_last_check_time, mm_usage, mm_psutil, mm_n,
             mm_memory_info, mm_memory_percent, mm_batch_size>>
ss_vars == <<ss_dict, ss_ref, ss_own>>
rc_vars == <<rc_pc, rc_key, rc_value, rc_calls, rc_failed>>
rest_vars == <<pg_vars, mm_vars, ss_vars, rc_vars>>
comp_vars == <<first_vars, rest_vars>>
\* what the operations of one component leave alone
beside_lru == <<prog_vars, secrets, disc_vars, http_vars, bo_vars, rl_vars, am_vars, bs_vars,
               rest_vars>>
beside_disc == <<secrets, http_vars, bo_vars, rl_vars, am_vars, bs_vars,
               rest_vars>>
beside_http == <<prog_vars, secrets, lru_vars, disc_vars, bo_vars, rl_vars, am_vars, bs_vars,
               rest_vars>>
beside_bo == <<prog_vars, secrets, lru_vars, disc_vars, http_vars, rl_vars, am_vars, bs_vars,
               rest_vars>>
beside_rl == <<prog_vars, secrets, lru_vars, disc_vars, http_vars, bo_vars, am_vars, bs_vars,
               rest_vars>>
beside_am == <<prog_vars, secrets, lru_vars, disc_vars, http_vars, bo_vars, rl_vars, bs_vars,
               rest_vars>>
beside_bs == <<prog_vars, secrets, lru_vars, disc_vars, http_vars, bo_vars, rl_vars, am_vars,
               rest_vars>>
beside_pg == <<prog_vars, first_vars, mm_vars, ss_vars, rc_vars>>
beside_mm == <<prog_vars, first_vars, pg_vars, ss_vars, rc_vars>>
beside_ss == <<prog_vars, first_vars, pg_vars, mm_vars, rc_vars>>
beside_rc == <<prog_vars, secrets, disc_vars, http_vars, bo_vars, rl_vars, am_vars, bs_vars,
               pg_vars, mm_vars, ss_vars, lru_log>>
vars == <<prog_vars, comp_vars>>

(***************************************************************************)
(* ProcessingState (app_state_manager.py / app.py)                         *)
(***************************************************************************)
\* the literal of PROGRESS_INITIAL_STATE; progress_info is {} or {snapshot}
InitialProcessingState ==
  [is_processing |-> FALSE, should_stop |-> FALSE, status_message |-> "",
   progress |-> 0, progress_info |-> {}]

\* st.session_state.processing_state: every assignment of it stores a reference
\* to the one dict PROGRESS_INITIAL_STATE
processing_state == PROGRESS_INITIAL_STATE

\* update_processing_state(**upd): assigns the fields that are given (not None)
update_processing_state(ps, upd) ==
  [is_processing |-> IF "is_processing" \in DOMAIN upd THEN upd.is_processing
                     ELSE ps.is_processing,
   should_stop |-> IF "should_stop" \in DOMAIN upd THEN upd.should_stop
                   ELSE ps.should_stop,
   status_message |-> IF "status_message" \in DOMAIN upd THEN upd.status_message
                      ELSE ps.status_message,
   progress |-> IF "progress" \in DOMAIN upd THEN upd.progress ELSE ps.progress,
   progress_info |-> IF "progress_info" \in DOMAIN upd THEN upd.progress_info
                     ELSE ps.progress_info]

(***************************************************************************)
(* memory_optimizer.py                                                     *)
(***************************************************************************)
url_cache_len == Cardinality(url_cache) + cache_other

\* optimize_memory(force): when the pass runs and the URL cache holds more than
\* MAX_CACHE_SIZE // 2 entries it constructs LRUCache[str](max_size=...) without
\* the required argument name, which raises TypeError
optimize_memory_raises(force, is_critical) ==
  (force \/ is_critical) /\ url_cache_len > MAX_CACHE_SIZE \div 2

(***************************************************************************)
(* ParallelScraper                                                         *)
(***************************************************************************)
_should_stop == _stop_event \/ ~_is_processing

\* the snapshot reads the processed counter as it was before the increment
_get_progress_info_stale(total, processed, success, error) ==
  IF total = 0 THEN {}
  ELSE {[total |-> total, processed |-> processed - 1, success |-> success,
         error |-> error,
         progress |-> Min(100, ((processed - 1) * 100) \div Max(1, total)),
         remaining |-> Max(0, total - (processed - 1))]}

\* a snapshot whose progress is not limited to 100
_get_progress_info_unclamped(total, processed, success, error) ==
  IF total = 0 THEN {}
  ELSE {[total |-> total, processed |-> processed, success |-> success,
         error |-> error,
         progress |-> (processed * 100) \div Max(1, total),
         remaining |-> Max(0, total - processed)]}

\* _get_progress_info: {} when total is 0, else one snapshot
_get_progress_info(total, processed, success, error) ==
  IF total = 0 THEN {}
  ELSE {[total |-> total, processed |-> processed, success |-> success,
         error |-> error,
         progress |-> Min(100, (processed * 100) \div Max(1, total)),
         remaining |-> Max(0, total - processed)]}

\* progress_callback (app_progress_handler.py): writes progress and progress_info
progress_callback(ps, info) ==
  IF info = {} THEN ps  \* progress_info['progress'] raises KeyError, caught by the caller
  ELSE [ps EXCEPT !.progress = (CHOOSE x \in info : TRUE).progress,
                  !.progress_info = info]

\* batch_size of scrape_salon_details_parallel; memory_percent in whole percent
BatchSize(n, percent) ==
  LET factor100 == Max(50, 100 - percent)
  IN  Min(CHUNK_SIZE * 2,
          Max(Max(MIN_BATCH, (CHUNK_SIZE * factor100) \div 100), n \div MAX_WORKERS))

\* salon_batches[i]: salon_urls[i*batch_size : i*batch_size + batch_size]
Batch_overlap(i) ==
  SubSeq(salon_urls, Max(1, i * batch_size), Min(Len(salon_urls), (i + 1) * batch_size))
Batch(i) ==
  SubSeq(salon_urls, i * batch_size + 1, Min(Len(salon_urls), (i + 1) * batch_size))
NumBatches ==
  IF batch_size = 0 THEN 0 ELSE (Len(salon_urls) + batch_size - 1) \div batch_size

InRun == pc \in {"batch_check", "submit", "as_completed", "finally", "unwind"}

\* a task ends: its future completes; as_completed of the run that waits for it
\* sees it in completion order
Finish(item, res, attempts, slept, cause) ==
  /\ finished' = IF item.run = run_no /\ item.url \in futures
                 THEN Append(finished, [url |-> item.url, result |-> res])
                 ELSE finished
  /\ task_log' = IF item.run = run_no
                 THEN [task_log EXCEPT ![item.url] =
                         [result |-> res, attempts |-> attempts, slept |-> slept,
                          cause |-> cause]]
                 ELSE task_log

NoStart == [called |-> FALSE, rejected |-> FALSE, had_old |-> FALSE,
            old_stopped |-> FALSE, old_released |-> FALSE, old_tasks |-> 0]

NoStop == [called |-> FALSE, was_processing |-> FALSE, had_scraper |-> FALSE,
           raised |-> FALSE]

NoLog == [result |-> "pending", attempts |-> 0, slept |-> 0, cause |-> ""]

\* stop()
ScraperStop ==
  /\ _stop_event' = TRUE
  /\ _is_processing' = FALSE
  /\ stop_called' = (stop_called \/ InRun)

\* an outside caller (another thread) calls stop() on the orchestrator
stop ==
  /\ ui_pc = "external"
  /\ ~stop_called
  /\ ScraperStop
  /\ UNCHANGED <<_total_urls, _processed_urls, _success_count, _error_count,
                 _progress_callback, pool_vars, run_vars, env_vars, app_vars,
                 submit_count, task_log, stop_observed, last_start, last_stop, flow_outcome>>
  /\ UNCHANGED comp_vars

\* scrape_salon_details_parallel, lines 306-343: up to the batch loop
BeginDetails(urls) ==
  IF urls = <<>>
  THEN /\ pc' = "returned"
       /\ results' = <<>>
       /\ salon_urls' = urls
       /\ UNCHANGED <<orch_vars, batch_size, batch_i, futures, finished, run_no,
                      submit_count, task_log, stop_called, stop_observed>>
  ELSE /\ _is_processing' = TRUE
       /\ _total_urls' = Len(urls)
       /\ _processed_urls' = 0
       /\ _success_count' = 0
       /\ _error_count' = 0
       /\ salon_urls' = urls
       /\ results' = <<>>
       /\ batch_size' = BatchSize(Len(urls), memory_percent)
       /\ batch_i' = 0
       /\ futures' = {}
       /\ finished' = <<>>
       /\ run_no' = run_no + 1
       /\ pc' = "batch_check"
       /\ submit_count' = [u \in DOMAIN submit_count |-> 0]
       /\ task_log' = [u \in DOMAIN task_log |-> NoLog]
       /\ stop_called' = _stop_event  \* a stop flag left set is still pending
       /\ stop_observed' = FALSE
       /\ UNCHANGED <<_stop_event, _progress_callback>>

\* memory_percent the run computes its batch size from, in whole percent
MemoryPercents == {30, DEFAULT_MEMORY_PERCENT}

\* a failed item is counted as processed but not as an error
_update_progress_no_error(success) ==
  /\ _processed_urls' = _processed_urls + 1
  /\ _success_count' = IF success THEN _success_count + 1 ELSE _success_count
  /\ _error_count' = _error_count
  /\ PROGRESS_INITIAL_STATE' =
       IF _progress_callback
       THEN progress_callback(PROGRESS_INITIAL_STATE,
              _get_progress_info(_total_urls, _processed_urls', _success_count',
                                 _error_count'))
       ELSE PROGRESS_INITIAL_STATE

\* _update_progress(progress_bar, success), under _progress_lock
_update_progress(success) ==
  /\ _processed_urls' = _processed_urls + 1
  /\ _success_count' = IF success THEN _success_count + 1 ELSE _success_count
  /\ _error_count' = IF success THEN _error_count ELSE _error_count + 1
  /\ PROGRESS_INITIAL_STATE' =
       IF _progress_callback
       THEN progress_callback(PROGRESS_INITIAL_STATE,
              _get_progress_info(_total_urls, _processed_urls', _success_count',
                                 _error_count'))
       ELSE PROGRESS_INITIAL_STATE

\* the batch loop without its stop check
BatchCheck_no_stop_check ==
  /\ pc = "batch_check"
  /\ pc' = IF batch_i >= NumBatches THEN "finally" ELSE "submit"
  /\ UNCHANGED <<orch_vars, pool_vars, salon_urls, batch_size, batch_i, futures,
                 finished, results, run_no, env_vars, app_vars, hist_vars>>
  /\ UNCHANGED comp_vars

\* for i, batch in enumerate(salon_batches): if self._should_stop(): break
BatchCheck ==
  /\ pc = "batch_check"
  /\ IF batch_i >= NumBatches
     THEN pc' = "finally" /\ UNCHANGED stop_observed
     ELSE IF _should_stop
          THEN pc' = "finally" /\ stop_observed' = TRUE
          ELSE pc' = "submit" /\ UNCHANGED stop_observed
  /\ UNCHANGED <<orch_vars, pool_vars, salon_urls, batch_size, batch_i, futures,
                 finished, results, run_no, env_vars, app_vars, submit_count,
                 task_log, stop_called, last_start, last_stop, flow_outcome>>
  /\ UNCHANGED comp_vars

\* futures = {self._executor.submit(self._scrape_salon_with_retry, scraper, url):
\*            url for url in batch}
SubmitBatch ==
  /\ pc = "submit"
  /\ LET batch == Batch(batch_i)
     IN  /\ queue' = queue \o [k \in 1..Len(batch) |-> [run |-> run_no, url |-> batch[k]]]
         /\ futures' = Range(batch)
         /\ submit_count' =
              [u \in DOMAIN submit_count |->
                 submit_count[u] + Cardinality({k \in 1..Len(batch) : batch[k] = u})]
  /\ finished' = <<>>
  /\ pc' = "as_completed"
  /\ UNCHANGED <<orch_vars, running, salon_urls, batch_size, batch_i, results,
                 run_no, env_vars, app_vars, task_log, stop_called, stop_observed,
                 last_start, last_stop, flow_outcome>>
  /\ UNCHANGED comp_vars

\* a loop over the completed futures without the stop check
ConsumeFuture_no_break ==
  /\ pc = "as_completed"
  /\ finished # <<>>
  /\ LET f == Head(finished)
     IN  IF FALSE
         THEN \* break: the rest of the batch is abandoned
              /\ stop_observed' = TRUE
              /\ futures' = {}
              /\ finished' = <<>>
              /\ batch_i' = batch_i + 1
              /\ pc' = "batch_check"
              /\ UNCHANGED <<orch_vars, results, PROGRESS_INITIAL_STATE>>
         ELSE /\ finished' = Tail(finished)
              /\ futures' = futures \ {f.url}
              /\ IF f.result = "record"
                 THEN results' = Append(results, f.url) /\ _update_progress(TRUE)
                 ELSE results' = results /\ _update_progress(FALSE)
              \* in the application the callback renders: a rerun request of the
              \* UI runtime raises its control exception (a BaseException) there
              /\ \E rerun \in (IF ui_pc = "wait" THEN BOOLEAN ELSE {FALSE}) :
                   pc' = IF rerun THEN "unwind" ELSE pc
              /\ UNCHANGED <<_stop_event, _is_processing, _total_urls,
                             _progress_callback, stop_observed, batch_i>>
  /\ UNCHANGED <<pool_vars, salon_urls, batch_size, run_no, env_vars, has_scraper,
                 scraper_no, old_scrapers, ui_pc, discovered, submit_count, task_log,
                 stop_called, last_start, last_stop, flow_outcome>>
  /\ UNCHANGED comp_vars

\* for future in as_completed(futures): one iteration on the next completed future
ConsumeFuture ==
  /\ pc = "as_completed"
  /\ finished # <<>>
  /\ LET f == Head(finished)
     IN  IF _should_stop
         THEN \* break: the rest of the batch is abandoned
              /\ stop_observed' = TRUE
              /\ futures' = {}
              /\ finished' = <<>>
              /\ batch_i' = batch_i + 1
              /\ pc' = "batch_check"
              /\ UNCHANGED <<orch_vars, results, PROGRESS_INITIAL_STATE>>
         ELSE /\ finished' = Tail(finished)
              /\ futures' = futures \ {f.url}
              /\ IF f.result = "record"
                 THEN results' = Append(results, f.url) /\ _update_progress(TRUE)
                 ELSE results' = results /\ _update_progress(FALSE)
              \* in the application the callback renders: a rerun request of the
              \* UI runtime raises its control exception (a BaseException) there
              /\ \E rerun \in (IF ui_pc = "wait" THEN BOOLEAN ELSE {FALSE}) :
                   pc' = IF rerun THEN "unwind" ELSE pc
              /\ UNCHANGED <<_stop_event, _is_processing, _total_urls,
                             _progress_callback, stop_observed, batch_i>>
  /\ UNCHANGED <<pool_vars, salon_urls, batch_size, run_no, env_vars, has_scraper,
                 scraper_no, old_scrapers, ui_pc, discovered, submit_count, task_log,
                 stop_called, last_start, last_stop, flow_outcome>>
  /\ UNCHANGED comp_vars

\* the batch loop goes on without waiting for the futures of the batch
BatchDone_no_wait ==
  /\ pc = "as_completed"
  /\ batch_i' = batch_i + 1
  /\ futures' = {}
  /\ finished' = <<>>
  /\ pc' = "batch_check"
  /\ UNCHANGED <<orch_vars, pool_vars, salon_urls, batch_size, results, run_no,
                 env_vars, app_vars, hist_vars>>
  /\ UNCHANGED comp_vars

\* as_completed is exhausted: every future of the batch was yielded
BatchDone ==
  /\ pc = "as_completed"
  /\ futures = {}
  /\ batch_i' = batch_i + 1
  /\ pc' = "batch_check"
  /\ UNCHANGED <<orch_vars, pool_vars, salon_urls, batch_size, futures, finished,
                 results, run_no, env_vars, app_vars, hist_vars>>
  /\ UNCHANGED comp_vars

\* the finally block of scrape_salon_details_parallel and the return
Finally ==
  /\ pc \in {"finally", "unwind"}
  /\ _is_processing' = FALSE
  /\ _stop_event' = FALSE
  /\ pc' = IF optimize_memory_raises(TRUE, FALSE) THEN "raised"
           ELSE IF pc = "unwind" THEN "aborted" ELSE "returned"
  /\ futures' = {}
  /\ finished' = <<>>
  /\ UNCHANGED <<_total_urls, _processed_urls, _success_count, _error_count,
                 _progress_callback, pool_vars, salon_urls, batch_size, batch_i,
                 results, run_no, env_vars, app_vars, hist_vars>>
  /\ UNCHANGED comp_vars

(***************************************************************************)
(* Worker threads: _scrape_salon_with_retry                                *)
(***************************************************************************)
\* what one attempt (rate limiter, scrape_salon_details, cache put) can do
Outcomes(kind) ==
  CASE kind = "ok" -> {"record"}
    [] kind = "down" -> {"none"}
    [] OTHER -> {"record", "none", "exception"}

\* a free worker takes the oldest work item: the cache lookup and the first
\* pass of the retry loop up to the stop check
TaskStart ==
  /\ queue # <<>>
  /\ Cardinality(running) < MAX_WORKERS
  /\ LET item == Head(queue)
     IN  /\ queue' = Tail(queue)
         /\ \/ /\ site[item.url] = "flaky"   \* url_cache.get raises, outside the try
               /\ Finish(item, "raise", 0, 0, "cache")
               /\ UNCHANGED running
            \/ /\ item.url \in url_cache
               /\ Finish(item, "record", 0, 0, "cached")
               /\ UNCHANGED running
            \/ /\ item.url \notin url_cache
               /\ IF _should_stop
                  THEN Finish(item, "none", 0, 0, "stop") /\ UNCHANGED running
                  ELSE /\ running' = running \cup
                            {[run |-> item.run, url |-> item.url, attempt |-> 0,
                              phase |-> "fetch", slept |-> 0]}
                       /\ UNCHANGED <<finished, task_log>>
  /\ UNCHANGED <<orch_vars, pc, salon_urls, batch_size, batch_i, futures, results,
                 run_no, env_vars, app_vars, submit_count, stop_called,
                 stop_observed, last_start, last_stop, flow_outcome>>
  /\ UNCHANGED comp_vars

\* the attempt of a running task ends: return result, or except Exception
TaskAttemptEnd ==
  \E t \in running, o \in {"record", "none", "exception"} :
    /\ t.phase = "fetch"
    /\ o \in Outcomes(site[t.url])
    /\ LET item == [run |-> t.run, url |-> t.url]
       IN  CASE o = "record" ->
                  /\ url_cache' = url_cache \cup {t.url}
                  /\ running' = running \ {t}
                  /\ Finish(item, "record", t.attempt + 1, t.slept, "fetched")
             [] o = "none" ->
                  /\ running' = running \ {t}
                  /\ Finish(item, "none", t.attempt + 1, t.slept, "down")
                  /\ UNCHANGED url_cache
             [] OTHER ->
                  /\ UNCHANGED url_cache
                  /\ IF t.attempt = retries - 1
                     THEN /\ running' = running \ {t}
                          /\ Finish(item, "none", t.attempt + 1, t.slept, "exception")
                     ELSE /\ running' = (running \ {t}) \cup {[t EXCEPT !.phase = "sleep"]}
                          /\ UNCHANGED <<finished, task_log>>
    /\ UNCHANGED <<orch_vars, queue, pc, salon_urls, batch_size, batch_i, futures,
                   results, run_no, site, cache_other, memory_percent, app_vars, submit_count,
                   stop_called, stop_observed, last_start, last_stop, flow_outcome>>
    /\ UNCHANGED comp_vars

\* time.sleep(2 ** attempt) is over: the next pass of the loop, up to the stop check
TaskRetry ==
  \E t \in running :
    /\ t.phase = "sleep"
    /\ LET item == [run |-> t.run, url |-> t.url]
           slept == t.slept + Pow2(t.attempt)
       IN  IF _should_stop
           THEN /\ running' = running \ {t}
                /\ Finish(item, "none", t.attempt + 1, slept, "stop")
           ELSE /\ running' = (running \ {t}) \cup
                     {[t EXCEPT !.phase = "fetch", !.attempt = t.attempt + 1,
                                !.slept = slept]}
                /\ UNCHANGED <<finished, task_log>>
    /\ UNCHANGED <<orch_vars, queue, pc, salon_urls, batch_size, batch_i, futures,
                   results, run_no, env_vars, app_vars, submit_count, stop_called,
                   stop_observed, last_start, last_stop, flow_outcome>>
    /\ UNCHANGED comp_vars

(***************************************************************************)
(* A run of scrape_salon_details_parallel called from outside (main.py)    *)
(***************************************************************************)
Urls == 1..ManyUrls

scrape_salon_details_parallel ==
  /\ ui_pc = "external"
  /\ pc = "idle"
  /\ BeginDetails(salon_urls)
  /\ UNCHANGED <<pool_vars, env_vars, app_vars, last_start, last_stop, flow_outcome>>
  /\ UNCHANGED comp_vars

\* secret_manager.py, config.py: the entries of the settings store the code
\* reads
SecretsRead ==
  {"password", "environment", "max_workers", "rate_limit", "memory_efficient",
   "user_agent"}

\* the settings store of a production deployment, an entry for every key read
\* that takes part in access control
ProductionSecrets == [environment |-> "production", password |-> "set"]

\* secret_manager.py: is_development_environment()
is_development_environment == secrets.environment = "development"

\* the development skip flag is honoured: the code reads skip_password and the
\* environment is development
skip_password_applies == "skip_password" \in SecretsRead /\ is_development_environment

\* app.py: the keys init_session_state() and main() create in st.session_state;
\* the callbacks and the scrape flow write into these and add none
SessionStateKeys ==
  {"processing_state", "filter_state", "ui_state", "progress_placeholder",
   "status_placeholder", "metrics_placeholder", "area_manager", "scraper"}

\* the session holds a record of a checked password
authenticated == "authenticated" \in SessionStateKeys

\* the components beside the orchestrator as the imports of the modules leave
\* them, with the settings store of a production deployment
InitSecrets == secrets = ProductionSecrets

\* memory_optimizer.py: url_cache = LRUCache[str](name="URL Cache",
\* max_size=MAX_CACHE_SIZE)
InitUrlCache ==
  /\ lru = <<>>
  /\ lru_max = MAX_CACHE_SIZE
  /\ lru_hits = 0
  /\ lru_misses = 0
  /\ lru_log = <<>>

\* no call of scrape_salon_urls is under way and none was made
InitNoDiscovery ==
  /\ su_pc = "idle"
  /\ area_url = 0
  /\ page_num = 1
  /\ su_urls = <<>>
  /\ fetches = 0
  /\ listing = <<>>
  /\ calls = <<>>

\* HTTPClient.get is not being called
InitNoGet ==
  /\ http_pc = "idle"
  /\ http_attempt = 0
  /\ http_log = <<>>
  /\ http_sleeps = <<>>
  /\ http_ret = [kind |-> "pending", status |-> 0]

\* HTTPClient.get and calculate_backoff are not being called
InitNoRequest ==
  /\ InitNoGet
  /\ bo_attempt = 0
  /\ bo_draw = 0
  /\ bo_result = [called |-> FALSE, delay |-> 0, value |-> 0]

\* no RateLimiter is in use
InitNoRateLimiter ==
  /\ rl_clock = 0
  /\ rate_limit = 0
  /\ last_request_time = 0
  /\ rl_lock = 0
  /\ rl_pc = <<>>
  /\ rl_wake = <<>>
  /\ rl_log = <<>>

\* no AreaManager method is being called; the table is empty
InitNoAreaManager ==
  /\ am_df = <<>>
  /\ am_csv = <<>>
  /\ am_data = <<>>
  /\ am_op = "None"
  /\ am_result = <<>>

\* the scraping engine is not discovering the salons of an area
InitNoEngine ==
  /\ bs_pc = "idle"
  /\ bs_site = <<>>
  /\ bs_stop = FALSE
  /\ bs_last = 1
  /\ bs_page = 1
  /\ bs_item = 1
  /\ bs_urls = <<>>
  /\ bs_log = <<>>
  /\ bs_ret = "NotReturned"

\* no call of scrape_salon_details_parallel is followed thread by thread
InitNoProgress ==
  /\ pg_pc = "idle"
  /\ pg_callback = FALSE
  /\ pg_stop = FALSE
  /\ pg_processing = FALSE
  /\ pg_total = 0
  /\ pg_processed = 0
  /\ pg_success = 0
  /\ pg_error = 0
  /\ pg_queue = 0
  /\ pg_running = {}
  /\ pg_finished = <<>>
  /\ pg_lock = "free"
  /\ pg_in_cb = {}
  /\ pg_cb_log = <<>>
  /\ pg_info = {}
  /\ pg_in = <<>>
  /\ pg_end = "None"

\* memory_monitor as constructed, no batch size being computed
InitNoMemory ==
  /\ mm_pc = "idle"
  /\ mm_clock = 0
  /\ mm_last_check_time = 0
  /\ mm_usage = 0
  /\ mm_psutil = TRUE
  /\ mm_n = 0
  /\ mm_memory_info = <<>>
  /\ mm_memory_percent = 0
  /\ mm_batch_size = 0

\* no session beside the one of the application model
InitNoSessions ==
  /\ ss_dict = <<>>
  /\ ss_ref = <<>>
  /\ ss_own = <<>>

\* no task is inside a call of the cache
InitNoTasks ==
  /\ rc_pc = <<>>
  /\ rc_key = <<>>
  /\ rc_value = <<>>
  /\ rc_calls = 0
  /\ rc_failed = {}

\* the components that are exercised alone
InitRest ==
  /\ InitNoProgress
  /\ InitNoMemory
  /\ InitNoSessions
  /\ InitNoTasks

\* the settings store and the components no specification below exercises
\* together with another
InitApart ==
  /\ InitSecrets
  /\ InitNoAreaManager
  /\ InitNoEngine
  /\ InitRest

\* the components beside the orchestrator and the one that is exercised
InitOthers ==
  /\ InitApart
  /\ InitNoRateLimiter

InitComponents ==
  /\ InitOthers
  /\ InitUrlCache
  /\ InitNoDiscovery
  /\ InitNoRequest

\* the components of first_vars, none of them exercised
InitFirst ==
  /\ InitSecrets
  /\ InitNoAreaManager
  /\ InitNoEngine
  /\ InitNoRateLimiter
  /\ InitUrlCache
  /\ InitNoDiscovery
  /\ InitNoRequest

\* ParallelScraper.__init__ and the initial session
InitScraper ==
  /\ _stop_event = FALSE
  /\ _is_processing = FALSE
  /\ _total_urls = 0
  /\ _processed_urls = 0
  /\ _success_count = 0
  /\ _error_count = 0
  /\ queue = <<>>
  /\ running = {}
  /\ pc = "idle"
  /\ batch_size = 0
  /\ batch_i = 0
  /\ futures = {}
  /\ finished = <<>>
  /\ results = <<>>
  /\ run_no = 0
  /\ submit_count = [u \in Urls |-> 0]
  /\ task_log = [u \in Urls |-> NoLog]
  /\ stop_called = FALSE
  /\ stop_observed = FALSE

InitOrchestrator ==
  /\ InitScraper
  /\ _progress_callback = TRUE
  /\ PROGRESS_INITIAL_STATE = InitialProcessingState
  /\ has_scraper = TRUE
  /\ scraper_no = 1
  /\ old_scrapers = <<>>
  /\ ui_pc = "external"
  /\ discovered = <<>>
  /\ last_start = NoStart
  /\ last_stop = NoStop
  /\ flow_outcome = ""
  /\ url_cache = {}
  /\ cache_other = 0

InitExternal ==
  /\ InitOrchestrator
  /\ InitComponents

\* an orchestrator that was constructed and is given no run: the state of the
\* program beside a component that is exercised alone
InitQuiescent ==
  /\ InitOrchestrator
  /\ salon_urls = <<>>
  /\ site = [u \in Urls |-> "ok"]
  /\ memory_percent = DEFAULT_MEMORY_PERCENT

\* short URL lists, any behaviour of the site for each URL
InitRun ==
  /\ InitExternal
  /\ memory_percent \in MemoryPercents
  /\ \E n \in 0..MaxUrls :
       /\ salon_urls = [k \in 1..n |-> k]
       /\ \E s \in [1..n -> SiteKinds] :
            site = [u \in Urls |-> IF u <= n THEN s[u] ELSE "ok"]

NextRun ==
  \/ scrape_salon_details_parallel
  \/ BatchCheck
  \/ SubmitBatch
  \/ ConsumeFuture
  \/ BatchDone
  \/ Finally
  \/ TaskStart
  \/ TaskAttemptEnd
  \/ TaskRetry
  \/ stop

Spec == InitRun /\ [][NextRun]_vars

\* a URL list long enough for two batches; the site serves every page, or fails
\* for one URL of the first or of the last batch
InitBatches ==
  /\ InitExternal
  /\ memory_percent = DEFAULT_MEMORY_PERCENT
  /\ salon_urls = [k \in 1..ManyUrls |-> k]
  /\ \E bad \in {<<0, "ok">>, <<2, "down">>, <<ManyUrls, "down">>, <<ManyUrls, "flaky">>} :
       site = [u \in Urls |-> IF u = bad[1] THEN bad[2] ELSE "ok"]

SpecBatches == InitBatches /\ [][NextRun]_vars

(***************************************************************************)
(* The interactive application: one browser session                        *)
(*                                                                         *)
(* The script thread of a session runs one thing at a time: a widget       *)
(* callback (handle_start, handle_stop of app_action_handlers.py, wired    *)
(* with on_click in app_ui.py) and then the script, main() of app.py.      *)
(* ui_pc is the position of that thread:                                   *)
(*   "idle"           the script has ended, the page waits for the user    *)
(*   "rerun"          a callback has ended or st.rerun() was called        *)
(*   "start_clicked"  main() is at the call handle_start() of line 644     *)
(*   "stop_clicked"   main() is at the call handle_stop() of line 654      *)
(*   "flow"           main() is at scraper.scrape_salon_urls, line 690     *)
(*   "wait"           main() is inside scrape_salon_details_parallel       *)
(***************************************************************************)
\* number of salon URLs the discovery of an area finds at most
MaxFound == 2

\* the key "area:<url>" of the selected area in url_cache
AreaKey == 0

counters == <<_total_urls, _processed_urls, _success_count, _error_count>>
run_hist == <<submit_count, task_log, stop_called, stop_observed>>

\* ParallelScraper() followed by set_progress_callback(progress_callback)
NewScraper ==
  /\ _stop_event' = FALSE
  /\ _is_processing' = FALSE
  /\ _total_urls' = 0
  /\ _processed_urls' = 0
  /\ _success_count' = 0
  /\ _error_count' = 0
  /\ _progress_callback' = TRUE
  /\ queue' = <<>>
  /\ running' = {}
  /\ pc' = "idle"
  /\ salon_urls' = <<>>
  /\ batch_size' = 0
  /\ batch_i' = 0
  /\ futures' = {}
  /\ finished' = <<>>
  /\ results' = <<>>
  /\ run_no' = 0
  /\ submit_count' = [u \in Urls |-> 0]
  /\ task_log' = [u \in Urls |-> NoLog]
  /\ stop_called' = FALSE
  /\ stop_observed' = FALSE

\* work items of the orchestrator's pool that are queued or running; each holds
\* the bound method _scrape_salon_with_retry and so a reference to the orchestrator
InFlight ==
  {[run |-> q.run, url |-> q.url, started |-> FALSE] : q \in Range(queue)}
    \cup {[run |-> t.run, url |-> t.url, started |-> TRUE] : t \in running}

\* __del__ of an orchestrator nothing refers to any more: sets the stop event and
\* shuts the pool down; the TypeError of optimize_memory(force=True) is swallowed
Finalized == [stop_event |-> TRUE, tasks |-> {}, shutdown |-> TRUE]

\* del st.session_state.scraper; gc.collect(): the orchestrator is finalized only
\* when no work item refers to it, else it lives on as it is
Dropped ==
  IF InFlight = {} THEN Finalized
  ELSE [stop_event |-> _stop_event, tasks |-> InFlight, shutdown |-> FALSE]

\* handle_start without the check of should_stop
handle_start_no_guard ==
  /\ ui_pc = "idle"
  /\ ui_pc' = "rerun"
  /\ IF processing_state.is_processing
     THEN /\ last_start' = [NoStart EXCEPT !.called = TRUE, !.rejected = TRUE]
          /\ UNCHANGED <<orch_vars, pool_vars, run_vars, env_vars,
                         PROGRESS_INITIAL_STATE, has_scraper, scraper_no,
                         old_scrapers, discovered, run_hist, last_stop, flow_outcome>>
     ELSE /\ scraper_no < MaxScrapers
          /\ last_start' = [called |-> TRUE, rejected |-> FALSE,
                            had_old |-> has_scraper,
                            old_stopped |-> has_scraper /\ Dropped.stop_event,
                            old_released |-> has_scraper /\ Dropped.shutdown,
                            old_tasks |-> IF has_scraper
                                          THEN Cardinality(Dropped.tasks) ELSE 0]
          /\ old_scrapers' = IF has_scraper /\ ~Dropped.shutdown
                             THEN Append(old_scrapers, Dropped) ELSE old_scrapers
          /\ NewScraper
          /\ has_scraper' = TRUE
          /\ scraper_no' = scraper_no + 1
          /\ PROGRESS_INITIAL_STATE' =
               update_processing_state(processing_state,
                 [is_processing |-> TRUE, should_stop |-> FALSE,
                  status_message |-> "starting"])
          /\ UNCHANGED <<env_vars, discovered, last_stop, flow_outcome>>
  /\ UNCHANGED comp_vars

\* handle_start (app_action_handlers.py), the on_click callback of the start button
handle_start ==
  /\ ui_pc = "idle"
  /\ ui_pc' = "rerun"
  /\ IF processing_state.should_stop \/ processing_state.is_processing
     THEN /\ last_start' = [NoStart EXCEPT !.called = TRUE, !.rejected = TRUE]
          /\ UNCHANGED <<orch_vars, pool_vars, run_vars, env_vars,
                         PROGRESS_INITIAL_STATE, has_scraper, scraper_no,
                         old_scrapers, discovered, run_hist, last_stop, flow_outcome>>
     ELSE /\ scraper_no < MaxScrapers
          /\ last_start' = [called |-> TRUE, rejected |-> FALSE,
                            had_old |-> has_scraper,
                            old_stopped |-> has_scraper /\ Dropped.stop_event,
                            old_released |-> has_scraper /\ Dropped.shutdown,
                            old_tasks |-> IF has_scraper
                                          THEN Cardinality(Dropped.tasks) ELSE 0]
          /\ old_scrapers' = IF has_scraper /\ ~Dropped.shutdown
                             THEN Append(old_scrapers, Dropped) ELSE old_scrapers
          /\ NewScraper
          /\ has_scraper' = TRUE
          /\ scraper_no' = scraper_no + 1
          /\ PROGRESS_INITIAL_STATE' =
               update_processing_state(processing_state,
                 [is_processing |-> TRUE, should_stop |-> FALSE,
                  status_message |-> "starting"])
          /\ UNCHANGED <<env_vars, discovered, last_stop, flow_outcome>>
  /\ UNCHANGED comp_vars

\* handle_stop that does not catch what the stop sequence raises
handle_stop_no_except ==
  /\ ui_pc = "idle"
  /\ ui_pc' = "rerun"
  /\ IF ~processing_state.is_processing
     THEN /\ last_stop' = [NoStop EXCEPT !.called = TRUE]
          /\ UNCHANGED <<orch_vars, stop_called, PROGRESS_INITIAL_STATE>>
     ELSE \E is_critical \in BOOLEAN :
            LET raised == has_scraper /\ optimize_memory_raises(FALSE, is_critical)
            IN  /\ last_stop' = [called |-> TRUE, was_processing |-> TRUE,
                                 had_scraper |-> has_scraper, raised |-> raised]
                /\ IF has_scraper
                   THEN ScraperStop /\ UNCHANGED <<counters, _progress_callback>>
                   ELSE UNCHANGED <<orch_vars, stop_called>>
                /\ PROGRESS_INITIAL_STATE' =
                     IF raised
                     THEN update_processing_state(processing_state,
                            [is_processing |-> TRUE, should_stop |-> TRUE,
                             status_message |-> "stopping",
                             progress |-> processing_state.progress])
                     ELSE update_processing_state(processing_state,
                            [is_processing |-> FALSE, should_stop |-> FALSE,
                             status_message |-> "stopped", progress |-> 0])
  /\ UNCHANGED <<pool_vars, run_vars, env_vars, has_scraper, scraper_no, old_scrapers,
                 discovered, submit_count, task_log, stop_observed, last_start,
                 flow_outcome>>
  /\ UNCHANGED comp_vars

\* handle_stop (app_action_handlers.py), the on_click callback of the stop button
handle_stop ==
  /\ ui_pc = "idle"
  /\ ui_pc' = "rerun"
  /\ IF ~processing_state.is_processing
     THEN /\ last_stop' = [NoStop EXCEPT !.called = TRUE]
          /\ UNCHANGED <<orch_vars, stop_called, PROGRESS_INITIAL_STATE>>
     ELSE \E is_critical \in BOOLEAN :
            \* scraper.stop() ends with optimize_memory()
            LET raised == has_scraper /\ optimize_memory_raises(FALSE, is_critical)
            IN  /\ last_stop' = [called |-> TRUE, was_processing |-> TRUE,
                                 had_scraper |-> has_scraper, raised |-> raised]
                /\ IF has_scraper
                   THEN ScraperStop /\ UNCHANGED <<counters, _progress_callback>>
                   ELSE UNCHANGED <<orch_vars, stop_called>>
                /\ PROGRESS_INITIAL_STATE' =
                     update_processing_state(processing_state,
                       [is_processing |-> FALSE, should_stop |-> FALSE,
                        status_message |-> IF raised THEN "stop_error" ELSE "stopped",
                        progress |-> 0])
  /\ UNCHANGED <<pool_vars, run_vars, env_vars, has_scraper, scraper_no, old_scrapers,
                 discovered, submit_count, task_log, stop_observed, last_start,
                 flow_outcome>>
  /\ UNCHANGED comp_vars

\* the except branch of main(): the run is marked inactive and the script reruns
ExceptBranch ==
  /\ PROGRESS_INITIAL_STATE' =
       update_processing_state(processing_state,
         [is_processing |-> FALSE, status_message |-> "error", progress |-> 0])
  /\ ui_pc' = "rerun"
  /\ flow_outcome' = "exception"

\* main() of app.py up to the first call that blocks: session initialisation,
\* the status block, the two buttons and the entry of the scrape flow
main ==
  /\ ui_pc \in {"idle", "rerun"}
  /\ has_scraper' = TRUE
  /\ scraper_no' = IF has_scraper THEN scraper_no ELSE scraper_no + 1
  /\ _progress_callback' = TRUE
  /\ LET state == processing_state
         is_processing == state.is_processing
         should_stop == state.should_stop
     IN  \/ \* load_area_data() gave nothing: return
            /\ ui_pc' = "idle"
            /\ flow_outcome' = ""
            /\ UNCHANGED PROGRESS_INITIAL_STATE
         \/ IF state.status_message # "" /\ should_stop /\ ~is_processing
            THEN \* a finished stop: the state is reset and the script reruns
                 /\ PROGRESS_INITIAL_STATE' =
                      update_processing_state(state,
                        [should_stop |-> FALSE, status_message |-> "", progress |-> 0])
                 /\ ui_pc' = "rerun"
                 /\ flow_outcome' = ""
            ELSE \/ \* the start button was clicked (disabled=is_processing)
                    /\ ui_pc = "idle"
                    /\ ~is_processing
                    /\ ui_pc' = "start_clicked"
                    /\ flow_outcome' = ""
                    /\ UNCHANGED PROGRESS_INITIAL_STATE
                 \/ \* the stop button was clicked
                    \* (disabled=not is_processing or should_stop)
                    /\ ui_pc = "idle"
                    /\ is_processing
                    /\ ~should_stop
                    /\ ui_pc' = "stop_clicked"
                    /\ flow_outcome' = ""
                    /\ UNCHANGED PROGRESS_INITIAL_STATE
                 \/ \* no button of this script run was clicked
                    IF is_processing /\ ~should_stop
                    THEN \E area \in {"found", "missing", "error"} :
                           CASE area = "missing" ->
                                  /\ PROGRESS_INITIAL_STATE' =
                                       update_processing_state(state,
                                         [is_processing |-> FALSE])
                                  /\ ui_pc' = "idle"
                                  /\ flow_outcome' = "not_found"
                             [] area = "error" -> ExceptBranch
                             [] OTHER ->
                                  /\ PROGRESS_INITIAL_STATE' =
                                       update_processing_state(state,
                                         [status_message |-> "collecting",
                                          progress |-> 0])
                                  /\ ui_pc' = "flow"
                                  /\ flow_outcome' = "running"
                    ELSE /\ ui_pc' = "idle"
                         /\ flow_outcome' = ""
                         /\ UNCHANGED PROGRESS_INITIAL_STATE
  /\ UNCHANGED <<_stop_event, _is_processing, counters, pool_vars, run_vars, env_vars,
                 old_scrapers, discovered, run_hist, last_start, last_stop>>
  /\ UNCHANGED comp_vars

\* handle_start of app.py, called by main() when the start button was clicked
app_handle_start ==
  /\ ui_pc = "start_clicked"
  /\ PROGRESS_INITIAL_STATE' =
       update_processing_state(processing_state,
         [is_processing |-> TRUE, should_stop |-> FALSE, status_message |-> "starting"])
  /\ ui_pc' = "rerun"
  /\ UNCHANGED <<orch_vars, pool_vars, run_vars, env_vars, has_scraper, scraper_no,
                 old_scrapers, discovered, hist_vars>>
  /\ UNCHANGED comp_vars

\* handle_stop of app.py, called by main() when the stop button was clicked; what
\* scraper.stop() raises leaves main() and ends the script
app_handle_stop ==
  /\ ui_pc = "stop_clicked"
  /\ IF ~processing_state.is_processing
     THEN /\ ui_pc' = "idle"
          /\ UNCHANGED <<orch_vars, stop_called, PROGRESS_INITIAL_STATE>>
     ELSE \E is_critical \in BOOLEAN :
            /\ ScraperStop
            /\ UNCHANGED <<counters, _progress_callback>>
            /\ IF optimize_memory_raises(FALSE, is_critical)
               THEN ui_pc' = "idle" /\ UNCHANGED PROGRESS_INITIAL_STATE
               ELSE /\ PROGRESS_INITIAL_STATE' =
                         update_processing_state(processing_state,
                           [is_processing |-> FALSE, should_stop |-> TRUE,
                            status_message |-> "stopped", progress |-> 0])
                    /\ ui_pc' = "rerun"
  /\ UNCHANGED <<pool_vars, run_vars, env_vars, has_scraper, scraper_no, old_scrapers,
                 discovered, submit_count, task_log, stop_observed, last_start,
                 last_stop, flow_outcome>>
  /\ UNCHANGED comp_vars

\* main(), lines 690-700: scraper.scrape_salon_urls(area_url), the return on an
\* empty list and the call of scrape_salon_details_parallel
Discover ==
  /\ ui_pc = "flow"
  /\ run_no < MaxRuns
  /\ \E n \in 0..MaxFound, is_critical \in BOOLEAN :
       LET cached == AreaKey \in url_cache
           \* BeautyScraper.scrape_salon_urls returns at its first stop check
           urls == IF cached THEN discovered
                   ELSE IF _stop_event THEN <<>>
                   ELSE [k \in 1..n |-> k]
       IN  /\ url_cache' = IF ~cached /\ urls # <<>>
                           THEN url_cache \cup {AreaKey} ELSE url_cache
           /\ UNCHANGED <<site, cache_other, memory_percent>>
           /\ IF MEMORY_EFFICIENT_MODE /\ optimize_memory_raises(FALSE, is_critical)'
              THEN \* optimize_memory() of the finally block of scrape_salon_urls raises
                   /\ _is_processing' = FALSE
                   /\ ExceptBranch
                   /\ UNCHANGED <<_stop_event, counters, _progress_callback, run_vars,
                                  discovered, run_hist>>
              ELSE IF urls = <<>>
              THEN /\ _is_processing' = FALSE
                   /\ PROGRESS_INITIAL_STATE' =
                        update_processing_state(processing_state,
                          [is_processing |-> FALSE])
                   /\ ui_pc' = "idle"
                   /\ flow_outcome' = "no_urls"
                   /\ UNCHANGED <<_stop_event, counters, _progress_callback, run_vars,
                                  discovered, run_hist>>
              ELSE /\ discovered' = urls
                   /\ BeginDetails(urls)
                   /\ ui_pc' = "wait"
                   /\ UNCHANGED <<PROGRESS_INITIAL_STATE, flow_outcome>>
  /\ UNCHANGED <<pool_vars, has_scraper, scraper_no, old_scrapers, last_start,
                 last_stop>>
  /\ UNCHANGED comp_vars

\* reset() up to its call of optimize_memory(force=True)
reset ==
  /\ _stop_event' = FALSE
  /\ _total_urls' = 0
  /\ _processed_urls' = 0
  /\ _success_count' = 0
  /\ _error_count' = 0
  /\ _is_processing' = FALSE

\* main(), lines 700-749: what follows scrape_salon_details_parallel
FlowEnd ==
  /\ ui_pc = "wait"
  /\ pc \in {"returned", "raised", "aborted"}
  /\ pc' = "idle"
  /\ CASE pc = "aborted" ->
            \* the control exception of the UI runtime ends the script
            /\ ui_pc' = "idle"
            /\ flow_outcome' = "interrupted"
            /\ UNCHANGED <<PROGRESS_INITIAL_STATE, orch_vars>>
       [] pc = "raised" -> ExceptBranch /\ UNCHANGED orch_vars
       [] pc = "returned" /\ results = <<>> ->
            \* st.warning only
            /\ ui_pc' = "idle"
            /\ flow_outcome' = "no_details"
            /\ UNCHANGED <<PROGRESS_INITIAL_STATE, orch_vars>>
       [] OTHER ->
            \E exported \in BOOLEAN :
              IF ~exported
              THEN ExceptBranch /\ UNCHANGED orch_vars
              ELSE /\ reset
                   /\ UNCHANGED _progress_callback
                   /\ IF optimize_memory_raises(TRUE, FALSE)
                      THEN ExceptBranch
                      ELSE /\ PROGRESS_INITIAL_STATE' =
                                update_processing_state(processing_state,
                                  [is_processing |-> FALSE,
                                   status_message |-> "completed",
                                   progress |-> 0, progress_info |-> {}])
                           /\ ui_pc' = "idle"
                           /\ flow_outcome' = "exported"
  /\ UNCHANGED <<pool_vars, salon_urls, batch_size, batch_i, futures, finished,
                 results, run_no, env_vars, has_scraper, scraper_no, old_scrapers,
                 discovered, run_hist, last_start, last_stop>>
  /\ UNCHANGED comp_vars

\* a work item of an orchestrator the session dropped ends; with the last one
\* nothing refers to the orchestrator and __del__ runs
OldTaskEnd ==
  \E k \in 1..Len(old_scrapers) :
    \E t \in old_scrapers[k].tasks, o \in {"record", "none", "exception"} :
      /\ o \in Outcomes(site[t.url])
      /\ url_cache' = IF t.started /\ o = "record"
                      THEN url_cache \cup {t.url} ELSE url_cache
      /\ LET rest == old_scrapers[k].tasks \ {t}
         IN  old_scrapers' =
               IF rest = {}
               THEN [j \in 1..(Len(old_scrapers) - 1) |->
                       IF j < k THEN old_scrapers[j] ELSE old_scrapers[j + 1]]
               ELSE [old_scrapers EXCEPT ![k].tasks = rest]
      /\ UNCHANGED <<orch_vars, pool_vars, run_vars, site, cache_other, memory_percent,
                     PROGRESS_INITIAL_STATE, has_scraper, scraper_no, ui_pc,
                     discovered, hist_vars>>
      /\ UNCHANGED comp_vars

\* app_state_manager.py: reset_processing_state() binds the session's
\* processing_state to the module level dict PROGRESS_INITIAL_STATE. The session's
\* processing_state is that same dict since init_session_state (line 26), and
\* update_processing_state wrote every update into it, so the value the name is
\* bound to is the dict as it is now
reset_processing_state(ps) == ps

\* app_ui.py: display_status_message of a script run, lines 279-284: a stop that
\* is over (message shown, should_stop, not processing) calls the registered
\* reset_processing_state_callback; it asks for no rerun
display_status_message ==
  /\ ui_pc \in {"idle", "rerun"}
  /\ processing_state.status_message # ""
  /\ processing_state.should_stop
  /\ ~processing_state.is_processing
  /\ PROGRESS_INITIAL_STATE' = reset_processing_state(PROGRESS_INITIAL_STATE)
  /\ ui_pc' = "idle"
  /\ UNCHANGED <<orch_vars, pool_vars, run_vars, env_vars, has_scraper, scraper_no,
                 old_scrapers, discovered, hist_vars>>
  /\ UNCHANGED comp_vars

\* the processing state another session left in the shared dict
LeftProcessing ==
  [InitialProcessingState EXCEPT !.is_processing = TRUE, !.status_message = "starting"]

\* a new session: its processing_state is the module level dict, it holds no
\* orchestrator until main() or handle_start constructs one
InitSession ==
  /\ InitScraper
  /\ _progress_callback = FALSE
  /\ salon_urls = <<>>
  /\ PROGRESS_INITIAL_STATE \in {InitialProcessingState, LeftProcessing}
  /\ has_scraper = FALSE
  /\ scraper_no = 0
  /\ old_scrapers = <<>>
  /\ ui_pc = "idle"
  /\ discovered = <<>>
  /\ last_start = NoStart
  /\ last_stop = NoStop
  /\ flow_outcome = ""
  /\ url_cache = {}
  /\ cache_other \in {0, OtherCacheEntries}
  /\ memory_percent = DEFAULT_MEMORY_PERCENT
  /\ InitComponents
  /\ \E first \in {"ok", "down"}, last \in SiteKinds :
       site = [u \in Urls |-> IF u = MaxFound THEN last
                               ELSE IF u < MaxFound THEN first ELSE "ok"]

NextApp ==
  \/ handle_start
  \/ handle_stop
  \/ main
  \/ display_status_message
  \/ app_handle_start
  \/ app_handle_stop
  \/ Discover
  \/ FlowEnd
  \/ OldTaskEnd
  \/ BatchCheck
  \/ SubmitBatch
  \/ ConsumeFuture
  \/ BatchDone
  \/ Finally
  \/ TaskStart
  \/ TaskAttemptEnd
  \/ TaskRetry

SpecApp == InitSession /\ [][NextApp]_vars

(***************************************************************************)
(* Properties of a scrape_details run                                      *)
(***************************************************************************)
Submitted == {u \in Urls : submit_count[u] > 0}
Completed(u) == task_log[u].result # "pending"
AllOk == \A k \in 1..Len(salon_urls) : site[salon_urls[k]] = "ok"
\* index of the batch the k-th URL of the list belongs to
BatchOf(k) == (k - 1) \div batch_size
CountersOf(info) == \A x \in info : /\ x.processed = x.success + x.error
                                    /\ 0 <= x.processed
                                    /\ x.processed <= x.total

\* C1: once stop() has been called during a run, the calling thread submits no
\* batch whose stop check comes after the call (only the batch already in flight
\* is handled); after the stop was observed nothing more is submitted, and the
\* returned list is no longer than the number of URLs submitted.
C1_StopEndsDispatch ==
  /\ [][/\ (stop_called /\ pc = "batch_check") => pc' # "submit"
        /\ (stop_observed /\ InRun) => submit_count' = submit_count
        /\ (stop_observed /\ InRun) => Len(results') <= Cardinality(Submitted)]_vars
  /\ [](pc = "returned" /\ stop_observed => Len(results) <= Cardinality(Submitted))

C1_Witness ==
  /\ pc = "returned"
  /\ stop_called
  /\ stop_observed
  /\ Len(salon_urls) = ManyUrls
  /\ batch_size = MIN_BATCH
  /\ Len(results) > 0
  /\ Cardinality(Submitted) = MIN_BATCH

C3_ErrorCounted ==
  /\ [][(/\ pc = "as_completed"
         /\ finished # <<>>
         /\ ~_should_stop
         /\ finished' = Tail(finished)
         /\ Head(finished).result # "record")
        => /\ _error_count' = _error_count + 1
           /\ _processed_urls' = _processed_urls + 1
           /\ _success_count' = _success_count
           /\ results' = results
           /\ pc' \in {"as_completed", "unwind"}]_vars
  /\ [](pc = "returned" /\ ~stop_called /\ run_no > 0 =>
          /\ _processed_urls = Len(salon_urls)
          /\ _error_count =
               Cardinality({u \in Range(salon_urls) :
                              task_log[u].result \in {"none", "raise"}})
          /\ Range(results) = {u \in Range(salon_urls) : task_log[u].result = "record"})

C3_Witness ==
  /\ pc = "returned"
  /\ ~stop_called
  /\ Len(salon_urls) = ManyUrls
  /\ batch_size = MIN_BATCH
  /\ site[2] = "down"
  /\ _error_count = 1
  /\ Len(results) = ManyUrls - 1

\* C4: a task whose extraction failed (the page could not be fetched) yields no
\* value only after the third attempt, having slept 2^0 + 2^1 seconds.
C4_ThreeAttempts ==
  \A u \in Urls :
    (task_log[u].result = "none" /\ task_log[u].cause = "down") =>
       /\ task_log[u].attempts = retries
       /\ task_log[u].slept = Pow2(0) + Pow2(1)

\* C5: a URL of a later batch is submitted only when every task of the earlier
\* batches has completed; a batch loop that ends with futures not yet yielded
\* ends by an observed stop, after which nothing is submitted.
C5_BatchesInSequence ==
  /\ [](\A k \in 1..Len(salon_urls) :
          (run_no > 0 /\ submit_count[salon_urls[k]] > 0) =>
             \A j \in 1..(BatchOf(k) * batch_size) : Completed(salon_urls[j]))
  /\ [][/\ (pc = "as_completed" /\ pc' = "batch_check" /\ futures # {})
              => (stop_observed' /\ _should_stop)
        /\ (stop_observed /\ InRun) => submit_count' = submit_count]_vars

C5_Witness ==
  /\ pc = "as_completed"
  /\ batch_i = 1
  /\ submit_count[salon_urls[ManyUrls]] = 1
  /\ \A k \in 1..MIN_BATCH : Completed(salon_urls[k])

\* C6: in every state of a run processed = success + error and
\* 0 <= processed <= total, for the counters and for the snapshot handed to the
\* callback; the counters never decrease during the run; the returned list has
\* as many elements as the final success count.
C6_CountersConsistent ==
  /\ [](/\ _processed_urls = _success_count + _error_count
        /\ 0 <= _processed_urls
        /\ _processed_urls <= _total_urls
        /\ CountersOf(PROGRESS_INITIAL_STATE.progress_info)
        /\ Len(results) = _success_count)
  /\ [][InRun => /\ _processed_urls' >= _processed_urls
                 /\ _success_count' >= _success_count
                 /\ _error_count' >= _error_count]_vars

C6_Witness ==
  /\ pc = "returned"
  /\ _success_count >= 1
  /\ _error_count >= 1
  /\ Len(results) = _success_count
  /\ PROGRESS_INITIAL_STATE.progress_info # {}

(***************************************************************************)
(* Properties of the session                                               *)
(***************************************************************************)
\* the outcomes of the scrape flow of one script run
FlowOutcomes == {"not_found", "no_urls", "no_details", "exported", "exception"}

\* a step that ends the scrape flow of a script run
FlowEnds ==
  /\ main \/ Discover \/ FlowEnd
  /\ flow_outcome' \in FlowOutcomes

\* C7: whenever the scrape flow of a script run ends (area not found, no URL
\* discovered, no detail scraped, export done, or an exception) the processing
\* state has is_processing = false.
C7_FlowEndsInactive ==
  [][FlowEnds => ~PROGRESS_INITIAL_STATE'.is_processing]_vars

\* C8: handle_start called with should_stop or is_processing set changes neither
\* the processing state nor the session's orchestrator; called with both clear it
\* ends with is_processing = true and should_stop = false; is_processing goes
\* from false to true only in a start handler and only with should_stop = false.
C8_StartGuard ==
  [][/\ handle_start =>
          IF processing_state.should_stop \/ processing_state.is_processing
          THEN UNCHANGED <<PROGRESS_INITIAL_STATE, has_scraper, scraper_no,
                           orch_vars, pool_vars, run_vars, old_scrapers>>
          ELSE /\ PROGRESS_INITIAL_STATE'.is_processing
               /\ ~PROGRESS_INITIAL_STATE'.should_stop
     /\ (~PROGRESS_INITIAL_STATE.is_processing /\ PROGRESS_INITIAL_STATE'.is_processing)
          => /\ handle_start \/ app_handle_start
             /\ ~PROGRESS_INITIAL_STATE.should_stop]_vars

\* handle_start has just refused to start because a stop is in flight
C8_Witness ==
  /\ ui_pc = "rerun"
  /\ last_start.called
  /\ last_start.rejected
  /\ processing_state.should_stop
  /\ ~processing_state.is_processing
  /\ has_scraper

\* C9: handle_stop called with is_processing = false changes nothing; called with
\* is_processing = true it ends with is_processing = false, should_stop = false
\* and progress = 0, also when stop() raises and when the session holds no
\* orchestrator.
C9_StopRecovers ==
  [][handle_stop =>
       IF ~processing_state.is_processing
       THEN UNCHANGED <<PROGRESS_INITIAL_STATE, orch_vars, pool_vars, run_vars,
                        env_vars, has_scraper, scraper_no, old_scrapers, discovered>>
       ELSE /\ ~PROGRESS_INITIAL_STATE'.is_processing
            /\ ~PROGRESS_INITIAL_STATE'.should_stop
            /\ PROGRESS_INITIAL_STATE'.progress = 0]_vars

\* handle_stop has just ended a run whose orchestrator's stop() raised
C9_Witness ==
  /\ ui_pc = "rerun"
  /\ last_stop.called
  /\ last_stop.was_processing
  /\ last_stop.had_scraper
  /\ last_stop.raised
  /\ _stop_event
  /\ ~processing_state.is_processing
  /\ ~processing_state.should_stop
  /\ processing_state.progress = 0

\* C10: when handle_start constructs a new orchestrator, the previous one has its
\* stop flag set, its pool shut down and no task still in flight; no orchestrator
\* the session dropped stays alive.
C10_OneLiveOrchestrator ==
  /\ (last_start.called /\ ~last_start.rejected /\ last_start.had_old) =>
        /\ last_start.old_stopped
        /\ last_start.old_released
        /\ last_start.old_tasks = 0
  /\ old_scrapers = <<>>

(***************************************************************************)
(* C11: after any sequence of update_processing_state calls and progress   *)
(* callback writes, reset_processing_state leaves the processing state     *)
(* equal to the initial values: is_processing false, should_stop false,    *)
(* status_message empty, progress 0, progress_info empty.                  *)
(***************************************************************************)
C11_ResetRestoresInitial ==
  [][display_status_message => PROGRESS_INITIAL_STATE' = InitialProcessingState]_vars

(***************************************************************************)
(* C12: on every refresh no later step (state store initialisation,        *)
(* orchestrator construction, rendering, the scrape flow) runs unless the  *)
(* session is authenticated by the password gate or the development skip   *)
(* flag applies.                                                           *)
(***************************************************************************)
C12_GateBeforeSteps ==
  [][main => (authenticated \/ skip_password_applies)]_vars

(***************************************************************************)
(* memory_optimizer.py: LRUCache, the class of url_cache and data_cache    *)
(***************************************************************************)
\* operations on one cache in a behaviour
MaxOps == 4
\* largest max_size a cache is constructed with
MaxSize == 2

Keys == {"A", "B", "C"}
Values == {"v1", "v2"}
\* Python's None, what get returns on a miss
None == "None"

\* key in self.cache
contains(cache, key) == \E i \in 1..Len(cache) : cache[i].key = key

\* self.cache.pop(key): the entry leaves the OrderedDict, its value is returned
pop(cache, key) ==
  [cache |-> SelectSeq(cache, LAMBDA e : e.key # key),
   value |-> (CHOOSE e \in Range(cache) : e.key = key).value]

\* get that leaves the order of the entries alone
get_no_touch(cache, key) ==
  IF ~contains(cache, key)
  THEN [hit |-> FALSE, cache |-> cache, value |-> None]
  ELSE [hit |-> TRUE, cache |-> cache, value |-> pop(cache, key).value]

\* LRUCache.get: a miss returns None; a hit pops the entry and stores it again,
\* which puts it last in the OrderedDict
get(cache, key) ==
  IF ~contains(cache, key)
  THEN [hit |-> FALSE, cache |-> cache, value |-> None]
  ELSE LET popped == pop(cache, key)
       IN  [hit |-> TRUE,
            cache |-> Append(popped.cache, [key |-> key, value |-> popped.value]),
            value |-> popped.value]

\* put that never drops an entry
put_no_evict(cache, max_size, key, value) ==
  LET c1 == IF contains(cache, key) THEN pop(cache, key).cache ELSE cache
  IN  [evicts |-> FALSE, evicted |-> key,
       cache |-> IF max_size > 0 THEN Append(c1, [key |-> key, value |-> value])
                 ELSE c1]

\* LRUCache.put: pop an entry of the same key, popitem(last=False) when the
\* cache is full, then store the entry last; evicted is the key popitem dropped
put(cache, max_size, key, value) ==
  LET c1 == IF contains(cache, key) THEN pop(cache, key).cache ELSE cache
      full == Len(c1) >= max_size /\ max_size > 0
      c2 == IF full THEN Tail(c1) ELSE c1
  IN  [evicts |-> full,
       evicted |-> IF full THEN Head(c1).key ELSE key,
       cache |-> IF max_size > 0 THEN Append(c2, [key |-> key, value |-> value])
                 ELSE c2]

\* one entry of the history of operations on the cache
LogEntry(op, key, value, hit, evicts, evicted) ==
  [op |-> op, key |-> key, value |-> value, hit |-> hit, evicts |-> evicts,
   evicted |-> evicted]

LRUCache_get ==
  /\ Len(lru_log) < MaxOps
  /\ \E key \in Keys :
       LET r == get(lru, key)
       IN  /\ lru' = r.cache
           /\ lru_hits' = IF r.hit THEN lru_hits + 1 ELSE lru_hits
           /\ lru_misses' = IF r.hit THEN lru_misses ELSE lru_misses + 1
           /\ lru_log' = Append(lru_log, LogEntry("get", key, r.value, r.hit, FALSE, key))
  /\ UNCHANGED <<lru_max, beside_lru>>

LRUCache_put ==
  /\ Len(lru_log) < MaxOps
  /\ \E key \in Keys, value \in Values :
       LET r == put(lru, lru_max, key, value)
       IN  /\ lru' = r.cache
           /\ lru_log' = Append(lru_log,
                           LogEntry("put", key, value, FALSE, r.evicts, r.evicted))
  /\ UNCHANGED <<lru_max, lru_hits, lru_misses, beside_lru>>

LRUCache_clear ==
  /\ Len(lru_log) < MaxOps
  /\ lru' = <<>>
  /\ lru_hits' = 0
  /\ lru_misses' = 0
  /\ lru_log' = Append(lru_log, LogEntry("clear", "A", None, FALSE, FALSE, "A"))
  /\ UNCHANGED <<lru_max, beside_lru>>

\* LRUCache.__init__ with any max_size up to MaxSize
InitLRUCache ==
  /\ lru = <<>>
  /\ lru_max \in 0..MaxSize
  /\ lru_hits = 0
  /\ lru_misses = 0
  /\ lru_log = <<>>

InitLRU ==
  /\ InitQuiescent
  /\ InitOthers
  /\ InitNoDiscovery
  /\ InitNoRequest
  /\ InitLRUCache

NextLRU ==
  \/ LRUCache_get
  \/ LRUCache_put
  \/ LRUCache_clear

SpecLRU == InitLRU /\ [][NextLRU]_vars

\* the last operation performed on the cache
LastOp == lru_log[Len(lru_log)]

\* the operations of the cache so far are exactly these <<op, key>> pairs
Scenario(ops) ==
  /\ Len(lru_log) = Len(ops)
  /\ \A i \in 1..Len(ops) : lru_log[i].op = ops[i][1] /\ lru_log[i].key = ops[i][2]

\* index of the last operation that used key: a put of it or a get that hit
LastUse(log, key) ==
  LET uses == {i \in 1..Len(log) :
                 /\ log[i].key = key
                 /\ log[i].op = "put" \/ (log[i].op = "get" /\ log[i].hit)}
  IN  IF uses = {} THEN 0 ELSE CHOOSE i \in uses : \A j \in uses : j <= i

(***************************************************************************)
(* C14: after any sequence of get, put and clear on an LRUCache with       *)
(* max_size N > 0 the number of entries is at most N, and after put(k, v)  *)
(* the key k is present with value v.                                      *)
(***************************************************************************)
C14_BoundedAndStored ==
  lru_max > 0 =>
    /\ Len(lru) <= lru_max
    /\ (lru_log # <<>> /\ LastOp.op = "put") =>
         /\ contains(lru, LastOp.key)
         /\ get(lru, LastOp.key).value = LastOp.value

\* a put into a full cache of two entries
C14_Witness ==
  /\ lru_max = MaxSize
  /\ Len(lru) = lru_max
  /\ lru_log # <<>>
  /\ LastOp.op = "put"
  /\ LastOp.evicts
  /\ \E i \in 1..(Len(lru_log) - 1) : lru_log[i].op = "get" /\ lru_log[i].hit

(***************************************************************************)
(* C15: when a put has to make room, the entry dropped is the one whose    *)
(* last use is the oldest, and a get that hits counts as a use. With       *)
(* max_size 2: put A, put B, get A, put C drops B; put A, put B, put C     *)
(* drops A.                                                                *)
(***************************************************************************)
C15_EvictsLeastRecentlyUsed ==
  /\ [][(LRUCache_put /\ LastOp'.evicts) =>
          /\ contains(lru, LastOp'.evicted)
          /\ ~contains(lru', LastOp'.evicted)
          /\ \A k \in Keys :
               (contains(lru, k) /\ k # LastOp'.key) =>
                 LastUse(lru_log, LastOp'.evicted) <= LastUse(lru_log, k)]_vars
  /\ []((/\ lru_max = 2
         /\ Scenario(<<<<"put", "A">>, <<"put", "B">>, <<"get", "A">>, <<"put", "C">>>>))
        => (lru_log[4].evicts /\ lru_log[4].evicted = "B"))
  /\ []((/\ lru_max = 2
         /\ Scenario(<<<<"put", "A">>, <<"put", "B">>, <<"put", "C">>>>))
        => (lru_log[3].evicts /\ lru_log[3].evicted = "A"))

C15_Witness ==
  /\ lru_max = 2
  /\ Scenario(<<<<"put", "A">>, <<"put", "B">>, <<"get", "A">>, <<"put", "C">>>>)
  /\ lru_log[3].hit
  /\ lru_log[4].evicted = "B"
  /\ {lru[i].key : i \in 1..Len(lru)} = {"A", "C"}

(***************************************************************************)
(* parallel_scraper.py: ParallelScraper.scrape_salon_urls, the discovery   *)
(* of the salon URLs of an area through the URL cache, called from outside *)
(***************************************************************************)
\* calls of scrape_salon_urls in one behaviour
MaxCalls == 3

\* the area URLs of the calls
Areas == {AreaKey, AreaKey - 1}

\* what the target site serves for an area: no page at all (the first fetch
\* fails), one page without salons, one page, two pages that share a salon
Listings == {<<>>, << <<>> >>, << <<1>> >>, << <<1, 2>>, <<2, 3>> >>}

\* cache_key = f"area:{area_url}"; the keys of salon entries are the salon URLs
cache_key(url) == url

\* scraper.py: if url and url not in salon_urls: salon_urls.append(url), for
\* every item of a page
RECURSIVE AppendNew(_, _)
AppendNew(acc, items) ==
  IF items = <<>> THEN acc
  ELSE AppendNew(IF Head(items) \in Range(acc) THEN acc ELSE Append(acc, Head(items)),
                 Tail(items))

\* a cache that stores whatever the engine returned
cache_result_always(cache, max_size, key, found) == put(cache, max_size, key, found)

\* lines 242-251: an empty result is returned without url_cache.put
cache_result(cache, max_size, key, found) ==
  IF found = <<>>
  THEN [evicts |-> FALSE, evicted |-> key, cache |-> cache]
  ELSE put(cache, max_size, key, found)

\* the call returns result: the finally block, then the caller has the value
Return(result) ==
  /\ _is_processing' = FALSE
  /\ calls' = Append(calls, [area |-> area_url', fetches |-> fetches', result |-> result])
  /\ su_pc' = "idle"

\* lines 227-236: the call up to the return of a cached list or the call of the
\* scraping engine
scrape_salon_urls ==
  /\ ui_pc = "external"
  /\ su_pc = "idle"
  /\ Len(calls) < MaxCalls
  /\ \E a \in Areas :
       LET cached_urls == get(lru, cache_key(a))
       IN  /\ area_url' = a
           /\ lru' = cached_urls.cache
           /\ lru_hits' = IF cached_urls.hit THEN lru_hits + 1 ELSE lru_hits
           /\ lru_misses' = IF cached_urls.hit THEN lru_misses ELSE lru_misses + 1
           /\ lru_log' = Append(lru_log, LogEntry("get", cache_key(a), cached_urls.value,
                                                   cached_urls.hit, FALSE, cache_key(a)))
           /\ fetches' = 0
           /\ su_urls' = <<>>
           /\ page_num' = 1
           /\ IF cached_urls.hit /\ cached_urls.value # <<>>
              THEN Return(cached_urls.value)
              ELSE /\ _is_processing' = TRUE
                   /\ su_pc' = "engine"
                   /\ UNCHANGED calls
  /\ UNCHANGED <<_stop_event, counters, _progress_callback, pool_vars, run_vars, env_vars,
                 app_vars, hist_vars, lru_max, listing, beside_disc>>

\* scraper.py, BeautyScraper.scrape_salon_urls up to the page loop: the stop
\* check, the first fetch of the area page
engine_first_page ==
  /\ su_pc = "engine"
  /\ IF _should_stop
     THEN su_pc' = "validate" /\ UNCHANGED fetches
     ELSE /\ fetches' = fetches + 1
          /\ su_pc' = IF listing[area_url] = <<>> THEN "validate" ELSE "pages"
  /\ UNCHANGED <<prog_vars, lru_vars, area_url, page_num, su_urls, listing, calls,
                 beside_disc>>

\* scraper.py, one pass of the page loop: the stop check, the fetch of the page
\* and the salon URLs of its items; the stop check before each item is taken
\* together with the one of the page
engine_page ==
  /\ su_pc = "pages"
  /\ IF page_num > Len(listing[area_url]) \/ _should_stop
     THEN su_pc' = "validate" /\ UNCHANGED <<fetches, su_urls, page_num>>
     ELSE /\ fetches' = fetches + 1
          /\ su_urls' = AppendNew(su_urls, listing[area_url][page_num])
          /\ page_num' = page_num + 1
          /\ UNCHANGED su_pc
  /\ UNCHANGED <<prog_vars, lru_vars, area_url, listing, calls, beside_disc>>

\* lines 241-263: the result of the engine is validated, cached and returned;
\* optimize_memory() of the finally block runs in memory efficient mode only
scrape_salon_urls_return ==
  /\ su_pc = "validate"
  /\ \E is_critical \in BOOLEAN :
       LET stored == cache_result(lru, lru_max, cache_key(area_url), su_urls)
       IN  /\ lru' = stored.cache
           /\ lru_log' = IF su_urls = <<>> THEN lru_log
                         ELSE Append(lru_log, LogEntry("put", cache_key(area_url), su_urls,
                                                       FALSE, stored.evicts, stored.evicted))
           /\ url_cache' = IF su_urls = <<>> THEN url_cache
                           ELSE url_cache \cup {cache_key(area_url)}
           /\ UNCHANGED <<area_url, fetches>>
           /\ IF MEMORY_EFFICIENT_MODE /\ optimize_memory_raises(FALSE, is_critical)'
              THEN \* what optimize_memory() raises leaves the call: no value
                   /\ _is_processing' = FALSE
                   /\ su_pc' = "idle"
                   /\ UNCHANGED calls
              ELSE Return(su_urls)
  /\ UNCHANGED <<_stop_event, counters, _progress_callback, pool_vars, run_vars, site,
                 cache_other, memory_percent, app_vars, hist_vars, lru_max, lru_hits,
                 lru_misses, page_num, su_urls, listing, beside_disc>>

\* an orchestrator, the empty URL cache and a target site with any of the
\* listings for each area
InitDiscovery ==
  /\ InitQuiescent
  /\ InitOthers
  /\ InitUrlCache
  /\ InitNoRequest
  /\ su_pc = "idle"
  /\ area_url = AreaKey
  /\ page_num = 1
  /\ su_urls = <<>>
  /\ fetches = 0
  /\ listing \in [Areas -> Listings]
  /\ calls = <<>>

NextDiscovery ==
  \/ scrape_salon_urls
  \/ engine_first_page
  \/ engine_page
  \/ scrape_salon_urls_return
  \/ stop

SpecDiscovery == InitDiscovery /\ [][NextDiscovery]_vars

(***************************************************************************)
(* C13: of two consecutive calls of scrape_salon_urls with the same area   *)
(* URL, the first of which returned a non-empty list, only the first one   *)
(* fetches pages: the second returns the identical list from the URL cache *)
(* without a fetch. An empty discovery result is never cached.             *)
(***************************************************************************)
C13_SecondCallFromCache ==
  /\ \A i \in 1..(Len(calls) - 1) :
       (calls[i].area = calls[i + 1].area /\ calls[i].result # <<>>) =>
         /\ calls[i + 1].fetches = 0
         /\ calls[i + 1].result = calls[i].result
  /\ \A i \in 1..Len(lru) : lru[i].value # <<>>
  /\ \A a \in Areas :
       (\A i \in 1..Len(calls) : calls[i].area = a => calls[i].result = <<>>) =>
         ~contains(lru, cache_key(a))

\* an area without salons was asked for and fetched, then an area with salons
\* twice: the first of the two calls fetched, the second did not
C13_Witness ==
  /\ Len(calls) = 3
  /\ calls[1].result = <<>> /\ calls[1].fetches > 0
  /\ calls[2].area = calls[3].area
  /\ calls[2].area # calls[1].area
  /\ calls[2].fetches > 1
  /\ Len(calls[2].result) > 1
  /\ calls[3].fetches = 0
  /\ calls[3].result = calls[2].result

(***************************************************************************)
(* http_client.py: HTTPClient                                              *)
(***************************************************************************)
\* config.py
MAX_RETRIES == 3
RETRY_DELAY == 1
MAX_BACKOFF == 60
RETRY_CODES == {429, 500, 502, 503, 504}
\* config.py: RETRY_EXCEPTIONS, classes of requests.exceptions
RETRY_EXCEPTIONS == {"Timeout", "ConnectionError", "RequestException"}

\* calculate_backoff: jitter is drawn from 0 to 0.1 * delay, a tenth of the delay;
\* durations are counted in tenths of a second
JITTER_DIVISOR == 10

\* largest attempt calculate_backoff is called with
MaxAttempt == 7
\* number of values random() takes in [0, 1): k / RandomSteps for k below
\* RandomSteps (2^53 in CPython, where the largest is 1 - 2^-53)
RandomSteps == 16

\* x / y rounded to the nearest integer: a float result is the representable
\* value nearest to the exact one
RoundDiv(x, y) == (2 * x + y) \div (2 * y)

\* the delay without the cap
backoff_delay_uncapped(attempt, base_delay) == base_delay * Pow2(attempt)

\* calculate_backoff, line 29: delay = min(MAX_BACKOFF, base_delay * (2 ** attempt)),
\* in seconds
backoff_delay(attempt, base_delay) == Min(MAX_BACKOFF, base_delay * Pow2(attempt))

\* calculate_backoff, lines 30-31: jitter = random.uniform(0, 0.1 * delay), which
\* is 0 + (0.1 * delay - 0) * random(); return delay + jitter. In tenths of a
\* second, with random() = draw / RandomSteps; the sum is rounded as a float sum is
calculate_backoff(attempt, base_delay, draw) ==
  LET delay == backoff_delay(attempt, base_delay)
  IN  RoundDiv(JITTER_DIVISOR * delay * RandomSteps + delay * draw, RandomSteps)

\* the call of calculate_backoff with the drawn inputs
HTTPClient_calculate_backoff ==
  /\ ~bo_result.called
  /\ bo_result' = [called |-> TRUE,
                   delay |-> backoff_delay(bo_attempt, RETRY_DELAY),
                   value |-> calculate_backoff(bo_attempt, RETRY_DELAY, bo_draw)]
  /\ UNCHANGED <<bo_attempt, bo_draw, beside_bo>>

InitBackoff ==
  /\ InitQuiescent
  /\ InitOthers
  /\ InitUrlCache
  /\ InitNoDiscovery
  /\ InitNoGet
  /\ bo_attempt \in 0..MaxAttempt
  /\ bo_draw \in 0..(RandomSteps - 1)
  /\ bo_result = [called |-> FALSE, delay |-> 0, value |-> 0]

NextBackoff ==
  \/ HTTPClient_calculate_backoff

SpecBackoff == InitBackoff /\ [][NextBackoff]_vars

(***************************************************************************)
(* C18: for attempt n in {0, 1, 2} with base delay 1 s the delay before    *)
(* jitter is min(60, 2^n) = 1, 2, 4 s; for every n >= 0 it never exceeds   *)
(* 60 s; the value calculate_backoff returns is >= the delay before jitter *)
(* and < 1.1 times it.                                                     *)
(***************************************************************************)
C18_BackoffStrictlyBelow ==
  bo_result.called =>
    /\ bo_attempt \in {0, 1, 2} => bo_result.delay = Pow2(bo_attempt)
    /\ bo_result.delay <= MAX_BACKOFF
    /\ bo_result.value >= JITTER_DIVISOR * bo_result.delay
    /\ JITTER_DIVISOR * bo_result.value < (JITTER_DIVISOR + 1) * JITTER_DIVISOR * bo_result.delay

\* C18 as it holds: the value returned is at most 1.1 times the delay before
\* jitter (the end point of random.uniform can be returned), the rest as stated
C18_BackoffAtMost ==
  bo_result.called =>
    /\ bo_attempt \in {0, 1, 2} => bo_result.delay = Pow2(bo_attempt)
    /\ bo_result.delay <= MAX_BACKOFF
    /\ bo_result.value >= JITTER_DIVISOR * bo_result.delay
    /\ JITTER_DIVISOR * bo_result.value <= (JITTER_DIVISOR + 1) * JITTER_DIVISOR * bo_result.delay

\* the third attempt with the largest value of random(): 4 s before jitter, and
\* the value returned is the upper end, 4.4 s
C18_Witness ==
  /\ bo_result.called
  /\ bo_attempt = 2
  /\ bo_draw = RandomSteps - 1
  /\ bo_result.delay = 4
  /\ bo_result.value = (JITTER_DIVISOR + 1) * bo_result.delay

(***************************************************************************)
(* http_client.py: HTTPClient.get                                          *)
(***************************************************************************)
\* status codes the target site answers with
Statuses == {200, 404} \cup RETRY_CODES

\* exceptions session.get raises: two transport failures of requests and one
\* exception that is not a RequestException
Raised == {"Timeout", "ConnectionError", "ValueError"}

\* what one session.get produces
Produced ==
  {[kind |-> "response", status |-> s, exception |-> ""] : s \in Statuses} \cup
  {[kind |-> "exception", status |-> 0, exception |-> x] : x \in Raised}

\* values of random() the jitter of a sleep is computed from
JitterDraws == {0, RandomSteps - 1}

\* the classes an exception is an instance of (requests.exceptions)
Bases(cls) ==
  IF cls \in {"Timeout", "ConnectionError", "HTTPError"}
  THEN {cls, "RequestException"} ELSE {cls}

isinstance(exception, classes) == Bases(exception) \cap classes # {}

\* requests: Response.ok, and bool(response), is whether raise_for_status() would
\* not raise; it raises HTTPError for 400 <= status_code < 600
ok(status) == ~(400 <= status /\ status < 600)

\* the exception variable after the try block of a pass that did not return:
\* what session.get raised, or the HTTPError of response.raise_for_status()
exception_of(o) == IF o.kind = "response" THEN "HTTPError" ELSE o.exception

\* HTTPClient.should_retry; `if response:` is the truth value of the response
should_retry(o, exception) ==
  IF exception # "" /\ isinstance(exception, RETRY_EXCEPTIONS) THEN TRUE
  ELSE IF o.kind = "response" /\ ok(o.status) THEN o.status \in RETRY_CODES
  ELSE FALSE

\* a loop that sleeps after its last pass too
backs_off_always(attempt) == TRUE

\* line 93: if attempt < MAX_RETRIES - 1
backs_off(attempt) == attempt < MAX_RETRIES - 1

HttpNone == [kind |-> "None", status |-> 0]

\* the call: headers, session, entry into the for loop
HTTPClient_get ==
  /\ http_pc = "idle"
  /\ http_pc' = "loop"
  /\ http_attempt' = 0
  /\ UNCHANGED <<http_log, http_sleeps, http_ret, beside_http>>

\* one pass of `for attempt in range(MAX_RETRIES)`, with the sleep at its end
get_attempt ==
  /\ http_pc = "loop"
  /\ \E o \in Produced, draw \in JitterDraws :
       /\ http_log' = Append(http_log, o)
       /\ IF o.kind = "response" /\ ok(o.status)
          THEN \* return response
               /\ http_ret' = [kind |-> "response", status |-> o.status]
               /\ http_pc' = "returned"
               /\ UNCHANGED <<http_attempt, http_sleeps>>
          ELSE IF ~should_retry(o, exception_of(o))
          THEN \* return response if response else None
               /\ http_ret' = IF o.kind = "response" /\ ok(o.status)
                              THEN [kind |-> "response", status |-> o.status]
                              ELSE HttpNone
               /\ http_pc' = "returned"
               /\ UNCHANGED <<http_attempt, http_sleeps>>
          ELSE /\ http_sleeps' =
                    IF backs_off(http_attempt)
                    THEN Append(http_sleeps,
                                calculate_backoff(http_attempt, RETRY_DELAY, draw))
                    ELSE http_sleeps
               /\ IF http_attempt + 1 < MAX_RETRIES
                  THEN /\ http_attempt' = http_attempt + 1
                       /\ UNCHANGED <<http_pc, http_ret>>
                  ELSE \* the loop is over: return None
                       /\ http_ret' = HttpNone
                       /\ http_pc' = "returned"
                       /\ UNCHANGED http_attempt
  /\ UNCHANGED beside_http

InitHTTP ==
  /\ InitQuiescent
  /\ InitOthers
  /\ InitUrlCache
  /\ InitNoDiscovery
  /\ InitNoRequest

NextHTTP ==
  \/ HTTPClient_get
  \/ get_attempt

SpecHTTP == InitHTTP /\ [][NextHTTP]_vars

\* session.get returns or raises within REQUEST_TIMEOUT and time.sleep returns:
\* a pass of the loop that can be taken is taken
SpecHTTPFair == SpecHTTP /\ WF_vars(get_attempt)

\* the request of the pass just taken
LastRequest == http_log[Len(http_log)]

\* the outcome is a failure the claim calls retryable: no response, or a status
\* code of RETRY_CODES
FailsRetryably(o) ==
  \/ o.kind = "exception" /\ isinstance(o.exception, RETRY_EXCEPTIONS)
  \/ o.kind = "response" /\ o.status \in RETRY_CODES

(***************************************************************************)
(* C16: HTTPClient.get retries an attempt only when it produced no         *)
(* response or a response whose status code is in {429, 500, 502, 503,     *)
(* 504}; a response with any other error status (404) is not retried and   *)
(* is returned to the caller as the response object, not as no value.      *)
(***************************************************************************)
C16_RetriesOnlyRetryable ==
  [][get_attempt =>
       /\ http_pc' = "loop" =>
            (LastRequest'.kind = "exception" \/ LastRequest'.status \in RETRY_CODES)
       /\ (/\ LastRequest'.kind = "response"
           /\ ~ok(LastRequest'.status)
           /\ LastRequest'.status \notin RETRY_CODES) =>
            /\ http_pc' = "returned"
            /\ http_ret' = [kind |-> "response", status |-> LastRequest'.status]]_vars

(***************************************************************************)
(* C17: every call of HTTPClient.get terminates after at most              *)
(* MAX_RETRIES = 3 requests; when every attempt fails retryably it returns *)
(* no value after exactly 3 requests and exactly 2 backoff sleeps (one     *)
(* between consecutive attempts, none after the last); it returns the      *)
(* first successful response without further requests.                     *)
(***************************************************************************)
C17_TerminatesWithinRetries ==
  /\ [](Len(http_log) <= MAX_RETRIES)
  /\ (http_pc = "loop") ~> (http_pc = "returned")
  /\ [](http_pc = "loop" => Len(http_sleeps) = Len(http_log))
  /\ [](http_pc = "returned" =>
          /\ Len(http_sleeps) = Len(http_log) - 1
          /\ (\A i \in 1..Len(http_log) : FailsRetryably(http_log[i])) =>
               /\ http_ret = HttpNone
               /\ Len(http_log) = MAX_RETRIES
               /\ Len(http_sleeps) = MAX_RETRIES - 1
          /\ \A i \in 1..Len(http_log) :
               (http_log[i].kind = "response" /\ ok(http_log[i].status)) =>
                 /\ i = Len(http_log)
                 /\ http_ret = [kind |-> "response", status |-> http_log[i].status])

\* a timeout, a 503 and a 429: three requests, two sleeps, no value
C17_Witness ==
  /\ http_pc = "returned"
  /\ Len(http_log) = 3
  /\ http_log[1].exception = "Timeout"
  /\ http_log[2].status = 503
  /\ http_log[3].status = 429
  /\ Len(http_sleeps) = 2
  /\ http_ret = HttpNone

(***************************************************************************)
(* parallel_scraper.py: RateLimiter. Time is counted in ticks of 0.05 s.   *)
(***************************************************************************)
\* max(0.1, rate_limit): 0.1 s in ticks
MIN_RATE_LIMIT == 2

\* worker threads that call wait()
MaxThreads == 2
\* calls of wait() that record a time in one behaviour
MaxWaits == 3
\* the clock stops here
MaxTime == 8

Threads == 1..MaxThreads
NoThread == 0
\* the rate_limit argument of the constructor, in ticks
ConfiguredRates == {0, MIN_RATE_LIMIT, MIN_RATE_LIMIT + 1}

\* a lock any thread gets at once
lock_free_always(lock) == TRUE

\* Lock.acquire of `with self._lock` goes on when no thread holds the lock
lock_free(lock) == lock = NoThread

\* time passes
Tick ==
  /\ rl_clock < MaxTime
  /\ rl_clock' = rl_clock + 1
  /\ UNCHANGED <<rate_limit, last_request_time, rl_lock, rl_pc, rl_wake, rl_log, beside_rl>>

\* a thread calls wait() and enters `with self._lock`
wait_acquire(t) ==
  /\ rl_pc[t] = "idle"
  /\ Len(rl_log) + Cardinality({u \in Threads : rl_pc[u] \in {"now", "sleep", "record"}})
       < MaxWaits
  /\ lock_free(rl_lock)
  /\ rl_lock' = t
  /\ rl_pc' = [rl_pc EXCEPT ![t] = "now"]
  /\ UNCHANGED <<rl_clock, rate_limit, last_request_time, rl_wake, rl_log, beside_rl>>

\* now = time.time(); elapsed; wait_time = max(0, self.rate_limit - elapsed);
\* time.sleep(wait_time) is entered when wait_time > 0
wait_now(t) ==
  /\ rl_pc[t] = "now"
  /\ LET now == rl_clock
         elapsed == now - last_request_time
         wait_time == Max(0, rate_limit - elapsed)
     IN  IF wait_time > 0
         THEN /\ rl_pc' = [rl_pc EXCEPT ![t] = "sleep"]
              /\ rl_wake' = [rl_wake EXCEPT ![t] = now + wait_time]
         ELSE /\ rl_pc' = [rl_pc EXCEPT ![t] = "record"]
              /\ UNCHANGED rl_wake
  /\ UNCHANGED <<rl_clock, rate_limit, last_request_time, rl_lock, rl_log, beside_rl>>

\* time.sleep returns, not before wait_time has passed
wait_sleep(t) ==
  /\ rl_pc[t] = "sleep"
  /\ rl_clock >= rl_wake[t]
  /\ rl_pc' = [rl_pc EXCEPT ![t] = "record"]
  /\ UNCHANGED <<rl_clock, rate_limit, last_request_time, rl_lock, rl_wake, rl_log, beside_rl>>

\* self.last_request_time = time.time()
wait_record(t) ==
  /\ rl_pc[t] = "record"
  /\ last_request_time' = rl_clock
  /\ rl_log' = Append(rl_log, [thread |-> t, recorded |-> rl_clock, returned |-> -1])
  /\ rl_pc' = [rl_pc EXCEPT ![t] = "exit"]
  /\ UNCHANGED <<rl_clock, rate_limit, rl_lock, rl_wake, beside_rl>>

\* the end of the with block releases the lock and wait() returns to its caller
wait_return(t) ==
  /\ rl_pc[t] = "exit"
  /\ rl_lock' = NoThread
  /\ rl_log' = [rl_log EXCEPT ![Len(rl_log)].returned = rl_clock]
  /\ rl_pc' = [rl_pc EXCEPT ![t] = "idle"]
  /\ UNCHANGED <<rl_clock, rate_limit, last_request_time, rl_wake, beside_rl>>

\* RateLimiter.__init__ at time 0 with any configured rate, the threads outside
InitRateLimiter ==
  /\ InitQuiescent
  /\ InitApart
  /\ InitUrlCache
  /\ InitNoDiscovery
  /\ InitNoRequest
  /\ rl_clock = 0
  /\ \E configured \in ConfiguredRates : rate_limit = Max(MIN_RATE_LIMIT, configured)
  /\ last_request_time = 0
  /\ rl_lock = NoThread
  /\ rl_pc = [t \in Threads |-> "idle"]
  /\ rl_wake = [t \in Threads |-> 0]
  /\ rl_log = <<>>

NextRateLimiter ==
  \/ Tick
  \/ \E t \in Threads : wait_acquire(t)
  \/ \E t \in Threads : wait_now(t)
  \/ \E t \in Threads : wait_sleep(t)
  \/ \E t \in Threads : wait_record(t)
  \/ \E t \in Threads : wait_return(t)

SpecRateLimiter == InitRateLimiter /\ [][NextRateLimiter]_vars

\* threads inside `with self._lock`
InCritical == {t \in Threads : rl_pc[t] \in {"now", "sleep", "record", "exit"}}

\* the calls are serialized and the recorded time never decreases
Serialized ==
  /\ [](Cardinality(InCritical) <= 1)
  /\ [](\A t \in InCritical : rl_lock = t)
  /\ [][last_request_time' >= last_request_time]_vars

(***************************************************************************)
(* C19: for any number of worker threads calling RateLimiter.wait()        *)
(* concurrently the calls are serialized by the mutex, the instants at     *)
(* which two consecutively permitted calls return differ by at least the   *)
(* enforced interval max(0.1 s, configured interval), and the recorded     *)
(* last-request time never decreases.                                      *)
(***************************************************************************)
C19_ReturnsSpaced ==
  /\ Serialized
  /\ [](\A i \in 1..(Len(rl_log) - 1) :
          rl_log[i + 1].returned >= 0 =>
            rl_log[i + 1].returned - rl_log[i].returned >= rate_limit)

\* C19 as it holds: the times recorded by two consecutive calls differ by at
\* least the enforced interval and no call returns before the time it recorded
C19_RecordedSpaced ==
  /\ Serialized
  /\ [](rate_limit >= MIN_RATE_LIMIT)
  /\ [](\A i \in 1..Len(rl_log) :
          /\ rl_log[i].returned >= 0 => rl_log[i].returned >= rl_log[i].recorded
          /\ i > 1 => rl_log[i].recorded - rl_log[i - 1].recorded >= rate_limit
          /\ rl_log[i].recorded >= rate_limit)

\* both threads went through wait(), one after the other, while the second was
\* blocked on the lock
C19_Witness ==
  /\ Len(rl_log) >= 2
  /\ rl_log[1].thread # rl_log[2].thread
  /\ rl_log[2].returned >= 0
  /\ rl_log[2].recorded = rl_log[1].recorded + rate_limit
  /\ rl_log[1].returned > rl_log[1].recorded

\* ===========================================================================
\* AreaManager.validate_area_data and add_area (area_manager.py)
\*
\* A str is the sequence of its pieces: a piece is one character or a run of
\* characters that no test of the code looks into.  A value of a field is a
\* str or an int: [t |-> "str", s |-> pieces] or [t |-> "int", n |-> number].
\* ===========================================================================

PREFECTURE_MAX_LEN == 10
AREA_MAX_LEN == 30
SALON_COUNT_MAX == 10000
HPB_NETLOC == <<"beauty.hotpepper.jp">>

StrValue(pieces) == [t |-> "str", s |-> pieces, n |-> 0]
\* float('nan'), what pandas stores for a missing value
NaN == [t |-> "nan", s |-> <<>>, n |-> 0]
IntValue(number) == [t |-> "int", s |-> <<>>, n |-> number]

\* the str of count copies of one character
Rep(c, count) == [i \in 1..count |-> c]

Whitespace == {" "}
DigitChars == <<"0", "1", "2", "3", "4", "5", "6", "7", "8", "9">>
UpperCase == {"A", "B", "C", "D", "E", "F", "G", "H", "I", "J", "K", "L", "M",
              "N", "O", "P", "Q", "R", "S", "T", "U", "V", "W", "X", "Y", "Z"}

\* str.strip()
RECURSIVE lstrip(_)
lstrip(s) ==
  IF s # <<>> /\ Head(s) \in Whitespace THEN lstrip(Tail(s)) ELSE s

RECURSIVE rstrip(_)
rstrip(s) ==
  IF s # <<>> /\ s[Len(s)] \in Whitespace
    THEN rstrip(SubSeq(s, 1, Len(s) - 1))
    ELSE s

strip(s) == rstrip(lstrip(s))

\* str(int): the decimal digits, with the sign of a negative number
RECURSIVE digits_of(_)
digits_of(number) ==
  IF number < 10
    THEN <<DigitChars[number + 1]>>
    ELSE Append(digits_of(number \div 10), DigitChars[(number % 10) + 1])

str(v) ==
  IF v.t = "str" THEN v.s
  ELSE IF v.n < 0 THEN <<"-">> \o digits_of(0 - v.n)
  ELSE digits_of(v.n)

\* the value of one decimal digit; 10 for any other character
digit_value(c) ==
  IF \E d \in 1..10 : DigitChars[d] = c
    THEN (CHOOSE d \in 1..10 : DigitChars[d] = c) - 1
    ELSE 10

RECURSIVE number_of(_)
number_of(ds) ==
  IF ds = <<>> THEN 0
  ELSE 10 * number_of(SubSeq(ds, 1, Len(ds) - 1)) + digit_value(ds[Len(ds)])

all_digits(ds) == ds # <<>> /\ \A i \in 1..Len(ds) : digit_value(ds[i]) < 10

\* int(): an int is itself; a str is stripped, may carry one sign and must
\* then be decimal digits, otherwise ValueError is raised
int(v) ==
  IF v.t = "int" THEN [raised |-> "", n |-> v.n]
  ELSE LET body == strip(v.s)
           signed == body # <<>> /\ Head(body) \in {"+", "-"}
           ds == IF signed THEN Tail(body) ELSE body
       IN IF ~all_digits(ds) THEN [raised |-> "ValueError", n |-> 0]
          ELSE IF signed /\ Head(body) = "-"
            THEN [raised |-> "", n |-> 0 - number_of(ds)]
            ELSE [raised |-> "", n |-> number_of(ds)]

\* the first position of a piece in a str, 0 when it has none
find(s, pieces) ==
  IF \E i \in 1..Len(s) : s[i] \in pieces
    THEN CHOOSE i \in 1..Len(s) :
           s[i] \in pieces /\ \A j \in 1..(i - 1) : s[j] \notin pieces
    ELSE 0

\* characters that cannot stand in a scheme
NotSchemeChars == {":", "/", "//", "[", "]", " ", "?", "#"}

\* urllib.parse.urlparse: the scheme is what stands before the first colon
\* when that is made of scheme characters; after it a double slash opens the
\* netloc, which ends before the next slash; the path is the rest.  A bracket
\* in the netloc without its partner raises ValueError.
urlparse(url) ==
  LET colon == find(url, {":"})
      has_scheme == /\ colon > 1
                    /\ \A i \in 1..(colon - 1) : url[i] \notin NotSchemeChars
      scheme == IF has_scheme THEN SubSeq(url, 1, colon - 1) ELSE <<>>
      rest == IF has_scheme THEN SubSeq(url, colon + 1, Len(url)) ELSE url
      has_netloc == rest # <<>> /\ Head(rest) = "//"
      after == IF has_netloc THEN Tail(rest) ELSE rest
      slash == find(after, {"/", "?", "#"})
      netloc == IF ~has_netloc THEN <<>>
                ELSE IF slash = 0 THEN after
                ELSE SubSeq(after, 1, slash - 1)
      path == IF ~has_netloc THEN rest
              ELSE IF slash = 0 THEN <<>>
              ELSE SubSeq(after, slash, Len(after))
      open == \E i \in 1..Len(netloc) : netloc[i] = "["
      close == \E i \in 1..Len(netloc) : netloc[i] = "]"
  IN IF open # close
       THEN [raised |-> "ValueError", scheme |-> <<>>, netloc |-> <<>>, path |-> <<>>]
       ELSE [raised |-> "", scheme |-> scheme, netloc |-> netloc, path |-> path]

\* sub in s, for strs
in(sub, s) ==
  \E i \in 1..(Len(s) - Len(sub) + 1) : SubSeq(s, i, i + Len(sub) - 1) = sub

RequiredMessage(field) == field \o " is a required field"
PrefectureLengthMessage == "the prefecture name must be 10 characters or fewer"
AreaLengthMessage == "the area name must be 30 characters or fewer"
UrlFormMessage == "the form of the URL is not correct"
TargetSiteMessage == "enter an area page of Hot Pepper Beauty"
CountTooSmallMessage == "the number of salons must be an integer of 1 or more"
CountTooLargeMessage == "the number of salons exceeds the upper limit (10,000)"
CountNotIntegerMessage == "enter the number of salons as an integer"
DuplicateMessage == "the combination of prefecture and area already exists"

required_fields == <<"prefecture", "area", "url", "estimated_salons">>

\* field not in data or not str(data[field]).strip()
is_absent(data, field) ==
  field \notin DOMAIN data \/ strip(str(data[field])) = <<>>

is_duplicate_never(df, prefecture, area) == FALSE

\* ==  on the values of a column: NaN equals nothing, a str equals no number
eq(a, b) == a.t # "nan" /\ b.t # "nan" /\ a = b

\* AreaManager.is_duplicate
is_duplicate(df, prefecture, area) ==
  \E i \in 1..Len(df) : eq(df[i]["prefecture"], prefecture) /\ eq(df[i]["area"], area)

\* the try block around urlparse: the message it returns, "" when it returns
\* none
check_url_skipped(data) == ""

check_url(data) ==
  LET result == urlparse(data["url"].s)
  IN IF result.raised # "" THEN UrlFormMessage
     ELSE IF result.scheme = <<>> \/ result.netloc = <<>> THEN UrlFormMessage
     ELSE IF ~(/\ result.netloc = HPB_NETLOC
               /\ \E c \in UpperCase : in(<<"/", "svcS", c, "/">>, result.path)
               /\ in(<<"mac">>, result.path)
               /\ in(<<"salon">>, result.path))
       THEN TargetSiteMessage
     ELSE ""

\* the try block around int(): the message it returns, "" when it returns none
check_salon_count(data) ==
  LET salon_count == int(data["estimated_salons"])
  IN IF salon_count.raised = "ValueError" THEN CountNotIntegerMessage
     ELSE IF salon_count.n <= 0 THEN CountTooSmallMessage
     ELSE IF salon_count.n > SALON_COUNT_MAX THEN CountTooLargeMessage
     ELSE ""

\* AreaManager.validate_area_data
validate_area_data(df, data) ==
  IF \E k \in 1..Len(required_fields) : is_absent(data, required_fields[k])
    THEN LET k == CHOOSE k \in 1..Len(required_fields) :
                    /\ is_absent(data, required_fields[k])
                    /\ \A j \in 1..(k - 1) : ~is_absent(data, required_fields[j])
         IN <<FALSE, RequiredMessage(required_fields[k])>>
  ELSE IF Len(data["prefecture"].s) > PREFECTURE_MAX_LEN
    THEN <<FALSE, PrefectureLengthMessage>>
  ELSE IF Len(data["area"].s) > AREA_MAX_LEN
    THEN <<FALSE, AreaLengthMessage>>
  ELSE IF check_url(data) # ""
    THEN <<FALSE, check_url(data)>>
  ELSE IF check_salon_count(data) # ""
    THEN <<FALSE, check_salon_count(data)>>
  ELSE IF is_duplicate(df, data["prefecture"], data["area"])
    THEN <<FALSE, DuplicateMessage>>
  ELSE <<TRUE, "">>

AddedMessage == "the area was added"
AddFailedMessage == "adding the area failed"

\* ---- the records and tables the calls are made with ----
GoodUrl == <<"https", ":", "//", "beauty.hotpepper.jp",
             "/", "svcS", "A", "/", "mac", "AA", "/", "salon", "/">>

Prefectures == {<<>>, Rep(" ", 2), Rep("a", PREFECTURE_MAX_LEN),
                Rep("a", PREFECTURE_MAX_LEN + 1), <<"b">>}

AreaNames == {<<" ">>, Rep("a", AREA_MAX_LEN), Rep("a", AREA_MAX_LEN + 1), <<"b">>,
              <<"7">>, <<"NA">>}

AreaUrls ==
  {GoodUrl,
   <<" ">>,
   <<"invalid-url">>,
   <<"http", ":", "//", "beauty.hotpepper.jp", "/", "x", "mac", "/", "svcS", "Z", "/", "salon">>,
   <<"https", ":", "//", "example.com", "/", "svcS", "A", "/", "mac", "AA", "/", "salon", "/">>,
   <<"beauty.hotpepper.jp", "/", "svcS", "A", "/", "mac", "AA", "/", "salon", "/">>,
   <<"https", ":", "/", "svcS", "A", "/", "mac", "AA", "/", "salon", "/">>,
   <<"https", ":", "//", "beauty.hotpepper.jp", "/", "svcS", "A", "/", "salon", "/">>,
   <<"https", ":", "//", "beauty.hotpepper.jp", "/", "svcS", "a", "/", "mac", "AA", "/", "salon", "/">>,
   <<"https", ":", "//", "beauty.hotpepper.jp", "/", "svcS", "A", "/", "mac", "AA", "/">>,
   <<"https", ":", "//", "[", "beauty.hotpepper.jp", "/", "svcS", "A", "/", "mac", "/", "salon">>}

SalonCounts ==
  {IntValue(0 - 1), IntValue(0), IntValue(1), IntValue(SALON_COUNT_MAX), IntValue(SALON_COUNT_MAX + 1),
   StrValue(<<>>), StrValue(<<"a">>), StrValue(<<"5">>), StrValue(<<" ", "5", "0", " ">>),
   StrValue(<<"-", "1">>), StrValue(<<"0">>), StrValue(<<"1", ".", "5">>),
   StrValue(<<"1", "0", "0", "0", "1">>)}

Absent == [t |-> "absent", s |-> <<>>, n |-> 0]

\* a record: any of the four fields may be missing
MakeRecord(prefecture, area, url, estimated_salons) ==
  LET full == [field \in {"prefecture", "area", "url", "estimated_salons"} |->
                 CASE field = "prefecture" -> prefecture
                   [] field = "area" -> area
                   [] field = "url" -> url
                   [] OTHER -> estimated_salons]
  IN [field \in {f \in DOMAIN full : full[f] # Absent} |-> full[field]]

Row(prefecture, area) ==
  MakeRecord(StrValue(prefecture), StrValue(area), StrValue(GoodUrl), IntValue(1))

MaxRows == 4
Columns == {"prefecture", "area", "url", "estimated_salons"}

\* the texts pandas reads as a missing value (keep_default_na)
NaValues == {<<>>, <<"NA">>, <<"N/A">>, <<"NaN">>, <<"nan">>, <<"null">>, <<"NULL">>, <<"None">>}

\* DataFrame.to_csv(index=False): one row of text per row of the table, a
\* missing value written as the empty text; quoting keeps every other text
to_csv(df) ==
  [i \in 1..Len(df) |->
     [column \in Columns |->
        IF df[i][column].t = "nan" THEN <<>> ELSE str(df[i][column])]]

\* pd.read_csv: a text of NaValues is NaN; a column whose other texts are all
\* integers is a column of numbers, any other column one of strs
read_csv(file) ==
  LET isna(i, column) == file[i][column] \in NaValues
      number(i, column) == int(StrValue(file[i][column]))
      numeric(column) ==
        \A i \in 1..Len(file) : isna(i, column) \/ number(i, column).raised = ""
  IN [i \in 1..Len(file) |->
        [column \in Columns |->
           IF isna(i, column) THEN NaN
           ELSE IF numeric(column) THEN IntValue(number(i, column).n)
           ELSE StrValue(file[i][column])]]

\* tables as _load_csv reads them: the file is not validated
Tables ==
  {<<>>,
   <<Row(Rep("a", PREFECTURE_MAX_LEN), Rep("a", AREA_MAX_LEN))>>,
   <<Row(<<"b">>, <<"b">>), Row(Rep("a", PREFECTURE_MAX_LEN + 1), <<"b">>)>>,
   read_csv(to_csv(<<Row(<<"b">>, <<"7">>)>>))}

\* the records a later submission of the form carries
FormRecords ==
  {MakeRecord(StrValue(<<"b">>), StrValue(area), StrValue(GoodUrl), IntValue(1)) :
     area \in {<<"b">>, <<"7">>, <<"NA">>}}

concat_front(df, data) == <<data>> \o df

\* pd.concat([self.df, pd.DataFrame([data])], ignore_index=True)
concat(df, data) == Append(df, data)

\* what save_areas can leave of the file: the table written, or, when to_csv
\* raises, the old file or a file that was opened for writing and is empty
SaveOutcomes == {"written", "refused", "truncated"}

\* a call of validate_area_data(data)
validate_area_data_call ==
  /\ am_op = "None"
  /\ am_op' = "validate_area_data"
  /\ am_result' = validate_area_data(am_df, am_data)
  /\ UNCHANGED <<am_df, am_csv, am_data, beside_am>>

\* a call of add_area(data): the row is appended before save_areas writes the
\* file, and a failure of the write is reported as a failed addition
add_area ==
  /\ am_op = "None"
  /\ Len(am_df) < MaxRows
  /\ am_op' = "add_area"
  /\ LET checked == validate_area_data(am_df, am_data)
     IN IF ~checked[1]
          THEN /\ am_result' = <<FALSE, checked[2]>>
               /\ am_df' = am_df
               /\ am_csv' = am_csv
          ELSE /\ am_df' = concat(am_df, am_data)
               /\ \E outcome \in SaveOutcomes :
                    /\ am_csv' = CASE outcome = "written" -> to_csv(am_df')
                                   [] outcome = "refused" -> am_csv
                                   [] OTHER -> <<>>
                    /\ am_result' = IF outcome = "written"
                                      THEN <<TRUE, AddedMessage>>
                                      ELSE <<FALSE, AddFailedMessage>>
  /\ UNCHANGED <<am_data, beside_am>>

\* AreaManager(csv_path): a new registry is constructed from the file
load ==
  /\ am_op \notin {"None", "load"}
  /\ am_op' = "load"
  /\ am_df' = read_csv(am_csv)
  /\ am_result' = <<>>
  /\ UNCHANGED <<am_csv, am_data, beside_am>>

\* the form is submitted once more, with the same record or another one
resubmit ==
  /\ am_op # "None"
  /\ am_op' = "None"
  /\ am_result' = <<>>
  /\ \E record \in FormRecords \cup {am_data} : am_data' = record
  /\ UNCHANGED <<am_df, am_csv, beside_am>>

InitAreaManager ==
  /\ InitQuiescent
  /\ InitSecrets
  /\ InitNoEngine
  /\ InitRest
  /\ InitNoRateLimiter
  /\ InitUrlCache
  /\ InitNoDiscovery
  /\ InitNoRequest
  /\ am_df \in Tables
  /\ am_csv = to_csv(am_df)
  /\ \E prefecture \in {StrValue(p) : p \in Prefectures} \cup {Absent},
        area \in {StrValue(a) : a \in AreaNames} \cup {Absent},
        url \in {StrValue(u) : u \in AreaUrls} \cup {Absent},
        estimated_salons \in SalonCounts \cup {Absent} :
       am_data = MakeRecord(prefecture, area, url, estimated_salons)
  /\ am_op = "None"
  /\ am_result = <<>>

NextAreaManager ==
  \/ validate_area_data_call
  \/ add_area
  \/ resubmit
  \/ load

SpecAreaManager == InitAreaManager /\ [][NextAreaManager]_vars

\* ---- the rules of the validation, each stated on the record alone ----
Has(data, field) == field \in DOMAIN data

\* rule 1: a field is missing or blank
RequiredViolated(data) ==
  \E field \in {"prefecture", "area", "url", "estimated_salons"} :
    ~Has(data, field) \/ \A i \in 1..Len(str(data[field])) : str(data[field])[i] = " "

\* rule 2: a name is longer than its limit
LengthViolated(data) ==
  \/ Has(data, "prefecture") /\ Len(data["prefecture"].s) > PREFECTURE_MAX_LEN
  \/ Has(data, "area") /\ Len(data["area"].s) > AREA_MAX_LEN

\* rule 3: the URL is not an area page of the target site
UrlViolated(data) == Has(data, "url") /\ check_url(data) # ""

\* rule 4: the salon count is not an integer of 1..10000
CountViolated(data) ==
  Has(data, "estimated_salons") /\
    LET parsed == int(data["estimated_salons"])
    IN parsed.raised # "" \/ parsed.n \notin 1..SALON_COUNT_MAX

\* rule 5: the table has a row with this prefecture and area
DuplicateViolated(df, data) ==
  /\ Has(data, "prefecture")
  /\ Has(data, "area")
  /\ \E i \in 1..Len(df) :
       df[i]["prefecture"] = data["prefecture"] /\ df[i]["area"] = data["area"]

\* the numbers of the rules a record violates
ViolatedRules(df, data) ==
  {rule \in 1..5 :
     CASE rule = 1 -> RequiredViolated(data)
       [] rule = 2 -> LengthViolated(data)
       [] rule = 3 -> UrlViolated(data)
       [] rule = 4 -> CountViolated(data)
       [] OTHER -> DuplicateViolated(df, data)}

MessagesOfRule(rule) ==
  CASE rule = 1 -> {RequiredMessage(field) :
                      field \in {"prefecture", "area", "url", "estimated_salons"}}
    [] rule = 2 -> {PrefectureLengthMessage, AreaLengthMessage}
    [] rule = 3 -> {UrlFormMessage, TargetSiteMessage}
    [] rule = 4 -> {CountTooSmallMessage, CountTooLargeMessage, CountNotIntegerMessage}
    [] OTHER -> {DuplicateMessage}

KeyInRegistry(df, data) ==
  /\ Has(data, "prefecture")
  /\ Has(data, "area")
  /\ \E i \in 1..Len(df) :
       eq(df[i]["prefecture"], data["prefecture"]) /\ eq(df[i]["area"], data["area"])

\* C21: when the registry contains the key of the submitted record, add_area
\* fails with the "already exists" message and the number of rows stays the
\* same, whatever URL and salon count the record carries.
C21_DuplicateKeyRejected ==
  [][add_area /\ KeyInRegistry(am_df, am_data) /\ ~RequiredViolated(am_data) =>
       /\ am_result' = <<FALSE, DuplicateMessage>>
       /\ Len(am_df') = Len(am_df)]_vars

\* the messages of validate_area_data that contain the text "URL"
MessagesWithURL == {UrlFormMessage}

\* the record has a url that is not blank and parses without scheme and host
UrlWithoutSchemeAndHost(data) ==
  /\ Has(data, "url")
  /\ strip(data["url"].s) # <<>>
  /\ LET result == urlparse(data["url"].s)
     IN result.raised = "" /\ result.scheme = <<>> /\ result.netloc = <<>>

\* C22 as stated: a record whose url has neither scheme nor host is rejected
\* with a message that mentions "URL", whatever the other three fields are.
C22_UrlMessageWhateverOthers ==
  am_op = "validate_area_data" /\ UrlWithoutSchemeAndHost(am_data) =>
    am_result[1] = FALSE /\ am_result[2] \in MessagesWithURL

\* C22: a record whose url has neither scheme nor host, and whose fields are
\* all present and not blank with names within their limits, is rejected with
\* a message that mentions "URL", whatever its salon count is and whether or
\* not its key is in the registry.
C22_UrlMessageAfterEarlierRules ==
  (/\ am_op = "validate_area_data"
   /\ UrlWithoutSchemeAndHost(am_data)
   /\ ~RequiredViolated(am_data)
   /\ ~LengthViolated(am_data)) =>
    am_result[1] = FALSE /\ am_result[2] \in MessagesWithURL

\* "invalid-url" was validated in a record whose count is out of range and
\* whose key is in the registry, and the URL message came back
C22_Witness ==
  /\ am_op = "validate_area_data"
  /\ Has(am_data, "url")
  /\ am_data["url"].s = <<"invalid-url">>
  /\ {4, 5} \subseteq ViolatedRules(am_df, am_data)
  /\ am_result = <<FALSE, UrlFormMessage>>

\* a record of the shape the test suite calls well-formed: names within their
\* limits, a URL with scheme and host, an int count in range, a new key
WellFormedForTests(df, data) ==
  /\ ~RequiredViolated(data)
  /\ ~LengthViolated(data)
  /\ LET result == urlparse(data["url"].s)
     IN result.raised = "" /\ result.scheme # <<>> /\ result.netloc # <<>>
  /\ data["estimated_salons"].t = "int"
  /\ data["estimated_salons"].n \in 1..SALON_COUNT_MAX
  /\ ~KeyInRegistry(df, data)

\* C23: a well-formed new record validates as (True, ""), and add_area of it
\* succeeds with the "added" message and one more row, unless the file could
\* not be written.
C23_WellFormedAccepted ==
  [][(validate_area_data_call \/ add_area) /\ WellFormedForTests(am_df, am_data) =>
       IF am_op' = "validate_area_data"
         THEN am_result' = <<TRUE, "">>
         ELSE \/ am_result' = <<FALSE, AddFailedMessage>>
              \/ /\ am_result' = <<TRUE, AddedMessage>>
                 /\ Len(am_df') = Len(am_df) + 1]_vars

\* C24: after a successful add_area of a record as the form supplies it (the
\* count an int), a registry constructed from the file holds the rows of the
\* table in memory, the added record last.
C24_ReloadEqualsTable ==
  [][(/\ load
      /\ am_op = "add_area"
      /\ am_result = <<TRUE, AddedMessage>>
      /\ am_data["estimated_salons"].t = "int") =>
       am_df' = am_df]_vars

\* no two rows of the table have the same prefecture and area
DistinctKeys(df) ==
  \A i, j \in 1..Len(df) :
    i # j => ~(df[i]["prefecture"] = df[j]["prefecture"] /\ df[i]["area"] = df[j]["area"])

\* C25: an add_area on a registry whose keys are pairwise distinct, in the
\* table and in the file, leaves them pairwise distinct in both.
C25_KeysStayDistinct ==
  [][add_area /\ DistinctKeys(am_df) /\ DistinctKeys(am_csv) =>
       DistinctKeys(am_df') /\ DistinctKeys(am_csv')]_vars

\* C26: an add_area whose validation fails leaves the table and the file as
\* they were; one that succeeds appends one row and leaves every earlier row
\* at its position with its values.
C26_AddOnlyAppends ==
  [][add_area =>
       IF ~validate_area_data(am_df, am_data)[1]
         THEN am_df' = am_df /\ am_csv' = am_csv
         ELSE am_result'[1] =>
                /\ Len(am_df') = Len(am_df) + 1
                /\ SubSeq(am_df', 1, Len(am_df)) = am_df
                /\ am_df'[Len(am_df')] = am_data]_vars

\* a record was added to a table of two rows
C26_Witness ==
  /\ am_op = "add_area"
  /\ am_result = <<TRUE, AddedMessage>>
  /\ Len(am_df) = 3
  /\ am_df[3] = am_data

\* ---- the memory-optimization pass ----

\* C27: no run of the memory-optimization pass raises into its caller: the
\* cleanup at the end of scrape_salon_details_parallel completes and the call
\* returns its results, and stop() completes, whatever the size of the URL
\* cache.
C27_PassNeverRaises ==
  /\ pc # "raised"
  /\ ~last_stop.raised

(***************************************************************************)
(* scraper.py: BeautyScraper.scrape_salon_urls, the scraping engine's      *)
(* discovery of the salon URLs of one area, page by page and item by item  *)
(***************************************************************************)
MaxPages == 2
MaxItems == 2

\* an href: the part urlparse keeps as scheme, netloc and path ("" when the
\* href has none), its query and its fragment
Href(base, query, fragment) == [base |-> base, query |-> query, fragment |-> fragment]

normalize_url_keeps_query(url) == url

\* url_utils.normalize_url: urlunparse of the parsed URL with params, query
\* and fragment replaced by ''
normalize_url(url) == [url EXCEPT !.query = "", !.fragment = ""]

\* the str is empty
IsEmptyUrl(url) == url.base = "" /\ url.query = "" /\ url.fragment = ""

\* the list items of a page: one without a link with href, two hrefs of one
\* salon, another salon, an href that is a fragment only
SalonItems ==
  {[has_href |-> FALSE, href |-> Href("", "", "")],
   [has_href |-> TRUE, href |-> Href("slnH1", "", "")],
   [has_href |-> TRUE, href |-> Href("slnH1", "cstt=1", "")],
   [has_href |-> TRUE, href |-> Href("slnH2", "", "")],
   [has_href |-> TRUE, href |-> Href("", "", "top")]}

ItemLists == UNION {[1..n -> SalonItems] : n \in 0..MaxItems}

\* a page of the listing: whether HTTPClient.get returns it, and its items
SalonPages == [ok : BOOLEAN, items : ItemLists]

Sites == UNION {[1..n -> SalonPages] : n \in 1..MaxPages}

Event(ev, page, idx, val) == [ev |-> ev, page |-> page, idx |-> idx, val |-> val]

\* should_stop and should_stop(): the predicate is evaluated
Evaluated == Append(bs_log, Event("eval", bs_page, bs_item, bs_stop))

\* return salon_urls
ReturnUrls(log) ==
  /\ bs_ret' = bs_urls
  /\ bs_pc' = "done"
  /\ bs_log' = log
  /\ UNCHANGED <<bs_last, bs_page, bs_item, bs_urls>>

\* lines 212-262: the stop check, the first fetch of the area page and the
\* number of pages its pagination element names (1 when it cannot be read)
engine_start ==
  /\ bs_pc = "start"
  /\ IF bs_stop
       THEN ReturnUrls(Evaluated)
       ELSE LET fetched == Append(Evaluated, Event("fetch", 1, 0, FALSE))
            IN IF ~bs_site[1].ok
                 THEN ReturnUrls(fetched)
                 ELSE /\ \E last \in {1, Len(bs_site)} : bs_last' = last
                      /\ bs_page' = 1
                      /\ bs_pc' = "page"
                      /\ bs_log' = fetched
                      /\ UNCHANGED <<bs_item, bs_urls, bs_ret>>
  /\ UNCHANGED <<bs_site, bs_stop, beside_bs>>

\* lines 267-296: one pass of the page loop up to the item loop, or its end
engine_next_page ==
  /\ bs_pc = "page"
  /\ IF bs_page > bs_last
       THEN ReturnUrls(bs_log)
       ELSE IF bs_stop
         THEN ReturnUrls(Evaluated)
         ELSE /\ bs_log' = Append(Evaluated, Event("fetch", bs_page, 0, FALSE))
              /\ IF bs_site[bs_page].ok
                   THEN bs_pc' = "items" /\ bs_item' = 1 /\ bs_page' = bs_page
                   ELSE bs_pc' = "page" /\ bs_item' = bs_item /\ bs_page' = bs_page + 1
              /\ UNCHANGED <<bs_last, bs_urls, bs_ret>>
  /\ UNCHANGED <<bs_site, bs_stop, beside_bs>>

engine_next_item_unchecked ==
  /\ bs_pc = "items"
  /\ bs_item <= Len(bs_site[bs_page].items)
  /\ bs_log' = Append(bs_log, Event("item", bs_page, bs_item, FALSE))
  /\ bs_item' = bs_item + 1
  /\ UNCHANGED <<bs_pc, bs_page, bs_last, bs_urls, bs_ret, bs_site, bs_stop, beside_bs>>

\* lines 305-325: one pass of the item loop, or its end
engine_next_item ==
  /\ bs_pc = "items"
  /\ LET salon_items == bs_site[bs_page].items
     IN IF bs_item > Len(salon_items)
          THEN /\ bs_pc' = "page"
               /\ bs_page' = bs_page + 1
               /\ UNCHANGED <<bs_item, bs_last, bs_urls, bs_log, bs_ret>>
          ELSE IF bs_stop
            THEN ReturnUrls(Evaluated)
            ELSE LET link == salon_items[bs_item]
                     url == normalize_url(link.href)
                     new == /\ link.has_href
                            /\ ~IsEmptyUrl(url)
                            /\ \A i \in 1..Len(bs_urls) : bs_urls[i] # url
                 IN /\ bs_urls' = IF new THEN Append(bs_urls, url) ELSE bs_urls
                    /\ bs_log' = Append(Evaluated, Event("item", bs_page, bs_item, new))
                    /\ bs_item' = bs_item + 1
                    /\ UNCHANGED <<bs_pc, bs_page, bs_last, bs_ret>>
  /\ UNCHANGED <<bs_site, bs_stop, beside_bs>>

\* the stop flag the predicate reads is set by another thread
request_stop ==
  /\ bs_pc # "done"
  /\ ~bs_stop
  /\ bs_stop' = TRUE
  /\ UNCHANGED <<bs_pc, bs_site, bs_last, bs_page, bs_item, bs_urls, bs_log, bs_ret,
                 beside_bs>>

\* a call of scrape_salon_urls with a predicate, for any listing of the area
InitEngine ==
  /\ InitQuiescent
  /\ InitSecrets
  /\ InitNoAreaManager
  /\ InitRest
  /\ InitNoRateLimiter
  /\ InitUrlCache
  /\ InitNoDiscovery
  /\ InitNoRequest
  /\ bs_pc = "start"
  /\ bs_site \in Sites
  /\ bs_stop \in BOOLEAN
  /\ bs_last = 1
  /\ bs_page = 1
  /\ bs_item = 1
  /\ bs_urls = <<>>
  /\ bs_log = <<>>
  /\ bs_ret = "NotReturned"

NextEngine ==
  \/ engine_start
  \/ engine_next_page
  \/ engine_next_item
  \/ request_stop

SpecEngine == InitEngine /\ [][NextEngine]_vars

\* the positions of the log where an item was handled
ItemEvents == {k \in 1..Len(bs_log) : bs_log[k].ev = "item"}

\* the first position of the log whose item has an href of this salon page
FirstSeen(url) ==
  CHOOSE k \in ItemEvents :
    /\ bs_site[bs_log[k].page].items[bs_log[k].idx].has_href
    /\ bs_site[bs_log[k].page].items[bs_log[k].idx].href.base = url.base
    /\ \A j \in ItemEvents :
         (/\ bs_site[bs_log[j].page].items[bs_log[j].idx].has_href
          /\ bs_site[bs_log[j].page].items[bs_log[j].idx].href.base = url.base) => k <= j

\* C28: the list of discovery holds no salon URL twice, every URL without
\* query and fragment, in the order in which the salons first occur: the items
\* are handled page by page in ascending order and in document order within a
\* page, and a URL is appended at the first item that links to it.
C28_FirstOccurrenceOrder ==
  /\ \A i, j \in 1..Len(bs_urls) : i # j => bs_urls[i].base # bs_urls[j].base
  /\ \A i \in 1..Len(bs_urls) :
       /\ bs_urls[i].query = "" /\ bs_urls[i].fragment = "" /\ bs_urls[i].base # ""
       /\ \E k \in ItemEvents :
            /\ bs_site[bs_log[k].page].items[bs_log[k].idx].has_href
            /\ bs_site[bs_log[k].page].items[bs_log[k].idx].href.base = bs_urls[i].base
  /\ \A k \in ItemEvents :
       LET item == bs_site[bs_log[k].page].items[bs_log[k].idx]
       IN (item.has_href /\ item.href.base # "") =>
            \E i \in 1..Len(bs_urls) : bs_urls[i].base = item.href.base
  /\ \A i, j \in 1..Len(bs_urls) : i < j => FirstSeen(bs_urls[i]) < FirstSeen(bs_urls[j])
  /\ \A k, m \in ItemEvents :
       k < m => \/ bs_log[k].page < bs_log[m].page
                \/ bs_log[k].page = bs_log[m].page /\ bs_log[k].idx < bs_log[m].idx
  /\ bs_pc = "done" => bs_ret = bs_urls

\* a listing of two pages was read to its end: the second page repeats a
\* salon of the first under another query and adds a new one
C28_Witness ==
  /\ bs_pc = "done"
  /\ Len(bs_site) = 2
  /\ Cardinality(ItemEvents) = 4
  /\ bs_site[1].items[2].href = Href("slnH1", "cstt=1", "")
  /\ bs_site[2].items[1].href = Href("slnH1", "", "")
  /\ bs_ret = <<Href("slnH2", "", ""), Href("slnH1", "", "")>>

\* should_stop() has returned True
ObservedTrue == \E k \in 1..Len(bs_log) : bs_log[k].ev = "eval" /\ bs_log[k].val

\* C29: the predicate is evaluated before the first fetch, before each page
\* and before each item; once it has been observed true nothing more is
\* fetched or appended, and the URLs collected until then are returned.
C29_StopObserved ==
  /\ [](/\ \A k \in 1..Len(bs_log) :
             bs_log[k].ev \in {"fetch", "item"} =>
               k > 1 /\ bs_log[k - 1].ev = "eval" /\ ~bs_log[k - 1].val
        /\ ObservedTrue => /\ bs_log[Len(bs_log)].ev = "eval"
                           /\ bs_pc = "done"
                           /\ bs_ret = bs_urls)
  /\ [][ObservedTrue => bs_urls' = bs_urls /\ bs_log' = bs_log /\ bs_ret' = bs_ret]_vars

\* the stop was observed before the second item of the second page, after
\* URLs had been collected
C29_Witness ==
  /\ ObservedTrue
  /\ bs_log[Len(bs_log)].page = 2
  /\ bs_log[Len(bs_log)].idx = 2
  /\ Len(bs_urls) = 2
  /\ bs_ret = bs_urls

(***************************************************************************)
(* C30: a detail task that finds no cached record and observes the stop    *)
(* flag set returns no value in that pass of its loop, without waiting on  *)
(* the rate limiter and without extraction: it makes no further attempt,   *)
(* stores nothing in the cache, and the run counts its future neither as a *)
(* success nor as an error.                                                *)
(***************************************************************************)
\* the tasks of the run that ended because they observed the stop flag
StoppedTasks == {u \in DOMAIN task_log : task_log[u].cause = "stop"}

C30_StoppedTaskNotCounted ==
  [][/\ \A u \in DOMAIN task_log :
          (task_log'[u].cause = "stop" /\ task_log[u].cause # "stop") =>
            /\ task_log'[u].result = "none"
            /\ url_cache' = url_cache
            /\ \A t \in running : t.url = u => task_log'[u].attempts = t.attempt + 1
            /\ (\A t \in running : t.url # u) => task_log'[u].attempts = 0
            /\ \A t \in running' : t.url # u
     /\ (_success_count' > _success_count \/ _error_count' > _error_count) =>
          /\ finished # <<>>
          /\ Head(finished).url \notin StoppedTasks]_vars

\* a run has returned in which one task observed the stop flag in its first
\* pass and another after a failed attempt, and neither was counted
C30_Witness ==
  /\ pc = "returned"
  /\ \E u, v \in StoppedTasks :
       /\ task_log[u].attempts = 0
       /\ task_log[v].attempts = 1
  /\ _success_count + _error_count + Cardinality(StoppedTasks) <= Len(salon_urls)

(***************************************************************************)
(* Progress reporting of scrape_salon_details_parallel, thread by thread   *)
(* (parallel_scraper.py): the calling thread, the worker threads of the    *)
(* pool, _update_progress under _progress_lock and the progress callback   *)
(***************************************************************************)
\* URLs of the run that is followed thread by thread (one batch)
MaxTasks == 3
\* largest counter a snapshot is taken of outside a run
MaxCount == 3

\* the thread that calls scrape_salon_details_parallel
MainThread == "MainThread"
\* the threads of self._executor
WorkerThreads == {"ThreadPoolExecutor-0_0", "ThreadPoolExecutor-0_1"}

\* every thread of the process may call _update_progress
UpdatingThreads_any == {MainThread} \cup WorkerThreads

\* the threads that call _update_progress: its three call sites are in the
\* as_completed loop of scrape_salon_details_parallel
UpdatingThreads == {MainThread}

\* _should_stop() of the orchestrator that is followed
pg_should_stop == pg_stop \/ ~pg_processing

\* one invocation of self._progress_callback
Invocation(t, info, at) == [thread |-> t, info |-> info, during |-> pg_in_cb, at |-> at]

\* scrape_salon_details_parallel(salon_urls) with n URLs up to the first
\* as_completed loop: the early return, the counters, the stop check of the
\* batch loop and the submission of the batch
details_begin(n) ==
  /\ pg_pc = "idle"
  /\ IF n = 0
     THEN /\ pg_pc' = "done"
          /\ pg_end' = "empty"
          /\ UNCHANGED <<pg_processing, pg_total, pg_processed, pg_success, pg_error,
                         pg_queue>>
     ELSE /\ pg_processing' = TRUE
          /\ pg_total' = n
          /\ pg_processed' = 0
          /\ pg_success' = 0
          /\ pg_error' = 0
          /\ IF pg_stop
             THEN pg_pc' = "finally" /\ pg_end' = "stopped" /\ pg_queue' = 0
             ELSE pg_pc' = "loop" /\ pg_end' = "None" /\ pg_queue' = n
  /\ UNCHANGED <<pg_callback, pg_stop, pg_running, pg_finished, pg_lock, pg_in_cb,
                 pg_cb_log, pg_info, pg_in, beside_pg>>

\* a worker thread of the pool takes a submitted task
worker_start(w) ==
  /\ pg_queue > 0
  /\ w \notin pg_running
  /\ pg_queue' = pg_queue - 1
  /\ pg_running' = pg_running \cup {w}
  /\ UNCHANGED <<pg_pc, pg_callback, pg_stop, pg_processing, pg_total, pg_processed,
                 pg_success, pg_error, pg_finished, pg_lock, pg_in_cb, pg_cb_log,
                 pg_info, pg_in, pg_end, beside_pg>>

\* _scrape_salon_with_retry returns on the worker thread (a record when good is true):
\* the future completes and as_completed of the waiting call can yield it
worker_end(w, good) ==
  /\ w \in pg_running
  /\ pg_running' = pg_running \ {w}
  /\ pg_finished' = IF pg_pc = "loop" THEN Append(pg_finished, good) ELSE pg_finished
  /\ UNCHANGED <<pg_pc, pg_callback, pg_stop, pg_processing, pg_total, pg_processed,
                 pg_success, pg_error, pg_queue, pg_lock, pg_in_cb, pg_cb_log,
                 pg_info, pg_in, pg_end, beside_pg>>

\* one iteration of the as_completed loop that does not break, up to the call
\* of the callback inside _update_progress: the lock is taken, the counters
\* move, the snapshot is computed and handed to the callback
update_progress_enter(t) ==
  /\ t \in UpdatingThreads
  /\ pg_pc = "loop"
  /\ pg_finished # <<>>
  /\ t \notin pg_in_cb
  /\ pg_lock = "free"
  /\ t = MainThread => ~pg_should_stop
  /\ LET good == Head(pg_finished)
         info == _get_progress_info(pg_total, pg_processed + 1,
                                    IF good THEN pg_success + 1 ELSE pg_success,
                                    IF good THEN pg_error ELSE pg_error + 1)
     IN  /\ pg_processed' = pg_processed + 1
         /\ pg_success' = IF good THEN pg_success + 1 ELSE pg_success
         /\ pg_error' = IF good THEN pg_error ELSE pg_error + 1
         /\ pg_info' = info
         /\ IF pg_callback
            THEN /\ pg_cb_log' = Append(pg_cb_log, Invocation(t, info, "item"))
                 /\ pg_in_cb' = pg_in_cb \cup {t}
                 /\ pg_lock' = t
            ELSE UNCHANGED <<pg_cb_log, pg_in_cb, pg_lock>>
  /\ pg_finished' = Tail(pg_finished)
  /\ UNCHANGED <<pg_pc, pg_callback, pg_stop, pg_processing, pg_total, pg_queue,
                 pg_running, pg_in, pg_end, beside_pg>>

\* the callback returns, or raises an Exception that _update_progress logs;
\* the with block releases the lock
update_progress_exit(t) ==
  /\ t \in pg_in_cb
  /\ pg_in_cb' = pg_in_cb \ {t}
  /\ pg_lock' = IF pg_lock = t THEN "free" ELSE pg_lock
  /\ UNCHANGED <<pg_pc, pg_callback, pg_stop, pg_processing, pg_total, pg_processed,
                 pg_success, pg_error, pg_queue, pg_running, pg_finished, pg_cb_log,
                 pg_info, pg_in, pg_end, beside_pg>>

\* the rendering inside the callback raises a control exception of the UI
\* runtime (a BaseException): no except clause of the call catches it, the
\* lock is released and the finally block is entered
update_progress_raise ==
  /\ MainThread \in pg_in_cb
  /\ pg_pc = "loop"
  /\ pg_in_cb' = pg_in_cb \ {MainThread}
  /\ pg_lock' = IF pg_lock = MainThread THEN "free" ELSE pg_lock
  /\ pg_pc' = "finally"
  /\ pg_end' = "error"
  /\ UNCHANGED <<pg_callback, pg_stop, pg_processing, pg_total, pg_processed,
                 pg_success, pg_error, pg_queue, pg_running, pg_finished, pg_cb_log,
                 pg_info, pg_in, beside_pg>>

\* for future in as_completed(futures): if self._should_stop(): break, and the
\* batch loop that breaks on the same test
loop_break ==
  /\ pg_pc = "loop"
  /\ MainThread \notin pg_in_cb
  /\ pg_finished # <<>>
  /\ pg_should_stop
  /\ pg_pc' = "finally"
  /\ pg_end' = "stopped"
  /\ pg_finished' = <<>>
  /\ UNCHANGED <<pg_callback, pg_stop, pg_processing, pg_total, pg_processed,
                 pg_success, pg_error, pg_queue, pg_running, pg_lock, pg_in_cb,
                 pg_cb_log, pg_info, pg_in, beside_pg>>

\* as_completed is exhausted and no batch is left
loop_end ==
  /\ pg_pc = "loop"
  /\ MainThread \notin pg_in_cb
  /\ pg_finished = <<>>
  /\ pg_queue = 0
  /\ pg_running = {}
  /\ pg_pc' = "finally"
  /\ pg_end' = "normal"
  /\ UNCHANGED <<pg_callback, pg_stop, pg_processing, pg_total, pg_processed,
                 pg_success, pg_error, pg_queue, pg_running, pg_finished, pg_lock,
                 pg_in_cb, pg_cb_log, pg_info, pg_in, beside_pg>>

\* the finally block: the call is marked inactive, the stop flag is cleared,
\* memory is logged and optimized; the callback is not called
details_finally ==
  /\ pg_pc = "finally"
  /\ pg_processing' = FALSE
  /\ pg_stop' = FALSE
  /\ pg_pc' = "done"
  /\ UNCHANGED <<pg_callback, pg_total, pg_processed, pg_success, pg_error, pg_queue,
                 pg_running, pg_finished, pg_lock, pg_in_cb, pg_cb_log, pg_info,
                 pg_in, pg_end, beside_pg>>

\* ParallelScraper.stop(), called while the call runs
progress_stop ==
  /\ pg_pc = "loop"
  /\ ~pg_stop
  /\ pg_stop' = TRUE
  /\ pg_processing' = FALSE
  /\ UNCHANGED <<pg_pc, pg_callback, pg_total, pg_processed, pg_success, pg_error,
                 pg_queue, pg_running, pg_finished, pg_lock, pg_in_cb, pg_cb_log,
                 pg_info, pg_in, pg_end, beside_pg>>

\* _get_progress_info() of an orchestrator whose counters are pg_in
get_progress_info_call ==
  /\ pg_pc = "idle"
  /\ pg_info' = _get_progress_info(pg_in.total, pg_in.processed, pg_in.success,
                                   pg_in.error)
  /\ pg_pc' = "snapshot"
  /\ UNCHANGED <<pg_callback, pg_stop, pg_processing, pg_total, pg_processed,
                 pg_success, pg_error, pg_queue, pg_running, pg_finished, pg_lock,
                 pg_in_cb, pg_cb_log, pg_in, pg_end, beside_pg>>

\* counters of an orchestrator: successes and errors add up to processed
CounterInputs ==
  {[total |-> n, processed |-> s + e, success |-> s, error |-> e] :
     n \in 0..MaxCount, s \in 0..MaxCount, e \in 0..1}

\* an orchestrator with or without a registered callback, with or without a
\* stop flag left set, before one call of scrape_salon_details_parallel
InitProgress ==
  /\ InitQuiescent
  /\ InitFirst
  /\ InitNoMemory
  /\ InitNoSessions
  /\ InitNoTasks
  /\ pg_pc = "idle"
  /\ pg_callback \in BOOLEAN
  /\ pg_stop \in BOOLEAN
  /\ pg_processing = FALSE
  /\ pg_total = 0
  /\ pg_processed = 0
  /\ pg_success = 0
  /\ pg_error = 0
  /\ pg_queue = 0
  /\ pg_running = {}
  /\ pg_finished = <<>>
  /\ pg_lock = "free"
  /\ pg_in_cb = {}
  /\ pg_cb_log = <<>>
  /\ pg_info = {}
  /\ pg_in \in CounterInputs
  /\ pg_end = "None"

NextProgress ==
  \/ \E n \in 0..MaxTasks : details_begin(n)
  \/ \E w \in WorkerThreads : worker_start(w)
  \/ \E w \in WorkerThreads, good \in BOOLEAN : worker_end(w, good)
  \/ \E t \in {MainThread} \cup WorkerThreads : update_progress_enter(t)
  \/ \E t \in {MainThread} \cup WorkerThreads : update_progress_exit(t)
  \/ update_progress_raise
  \/ loop_break
  \/ loop_end
  \/ details_finally
  \/ progress_stop
  \/ get_progress_info_call

SpecProgress == InitProgress /\ [][NextProgress]_vars

\* the progress value of a snapshot
ProgressOf(info) == (CHOOSE s \in info : TRUE).progress

\* C31: when a scrape_details run with a registered progress callback has
\* ended (normally, by a stop or by an error), the callback was invoked once
\* for each completed item and additionally once at run start and once at run
\* end, and the last invocation carried the final snapshot of the run
C31_CallbackPerItemAndAtStartAndEnd ==
  (pg_pc = "done" /\ pg_callback /\ pg_end # "empty") =>
    /\ Len(pg_cb_log) = pg_processed + 2
    /\ pg_cb_log[1].at = "start"
    /\ pg_cb_log[Len(pg_cb_log)].at = "end"
    /\ pg_cb_log[Len(pg_cb_log)].info =
         _get_progress_info(pg_total, pg_processed, pg_success, pg_error)

\* C32: every invocation of the progress callback runs on the thread that
\* called scrape_details, never on a worker thread of the pool, and no
\* invocation starts while another one is in progress
C32_CallbackOnCallingThreadOnly ==
  /\ pg_in_cb \subseteq {MainThread}
  /\ \A k \in 1..Len(pg_cb_log) :
       /\ pg_cb_log[k].thread = MainThread
       /\ pg_cb_log[k].during = {}

\* two invocations were made while worker threads were inside their tasks,
\* and the second one is in progress while a worker thread still runs
C32_Witness ==
  /\ Len(pg_cb_log) >= 2
  /\ MainThread \in pg_in_cb
  /\ pg_running # {}

\* what the claim states of one snapshot taken of the counters c
SnapshotLaw(info, c) ==
  /\ (info = {}) <=> (c.total = 0)
  /\ \A s \in info :
       /\ s.total = c.total
       /\ s.processed = c.processed
       /\ s.progress = Min(100, (s.processed * 100) \div Max(1, s.total))
       /\ 0 <= s.progress
       /\ s.progress <= 100
       /\ s.remaining = Max(0, s.total - s.processed)

\* C33: every non-empty snapshot has progress = min(100, processed /
\* max(1, total) * 100) within 0..100 and remaining = max(0, total -
\* processed), the snapshot is empty exactly when total is 0, and the
\* progress values of the successive snapshots of a run never decrease
C33_SnapshotFormulas ==
  /\ pg_pc = "snapshot" => SnapshotLaw(pg_info, pg_in)
  /\ \A k \in 1..Len(pg_cb_log) :
       SnapshotLaw(pg_cb_log[k].info, [total |-> pg_total, processed |-> k])
  /\ \A k \in 1..(Len(pg_cb_log) - 1) :
       ProgressOf(pg_cb_log[k].info) <= ProgressOf(pg_cb_log[k + 1].info)

\* a run reported two snapshots, the second one with more progress
C33_Witness ==
  /\ Len(pg_cb_log) >= 2
  /\ ProgressOf(pg_cb_log[1].info) < ProgressOf(pg_cb_log[2].info)
  /\ ProgressOf(pg_cb_log[2].info) < 100

(***************************************************************************)
(* MemoryMonitor.check_memory_usage (memory_optimizer.py) and the batch    *)
(* size of scrape_salon_details_parallel (parallel_scraper.py)             *)
(***************************************************************************)
\* memory_optimizer.py: self.check_interval, in seconds
CHECK_INTERVAL == 5
\* last instant of the clock
MaxClock == 11

\* memory usage of the host, in whole percent
UsagePercents == {0, 30, 50, 75, 100}
\* lengths of the URL list
ListLengths == {1, 15, 30, 60, 100}

\* the dicts check_memory_usage returns: {} when the check is not performed,
\* the sample with 'percent', or {'error': ..., 'is_critical': False}
EmptyInfo == [kind |-> "empty", percent |-> 0]
SampleInfo(percent) == [kind |-> "sample", percent |-> percent]
ErrorInfo == [kind |-> "error", percent |-> 0]

\* a check that is performed whenever it is called
perform_check_always(force, now, last) == TRUE

\* perform_check = force or (current_time - self.last_check_time) >= self.check_interval
perform_check(force, now, last) == force \/ (now - last) >= CHECK_INTERVAL

\* MemoryMonitor.check_memory_usage(force): the returned dict and the new
\* last_check_time
check_memory_usage(force) ==
  IF ~perform_check(force, mm_clock, mm_last_check_time)
  THEN [info |-> EmptyInfo, last |-> mm_last_check_time]
  ELSE [info |-> IF mm_psutil THEN SampleInfo(mm_usage) ELSE ErrorInfo,
        last |-> mm_clock]

\* memory_percent = memory_info.get('percent', 50) if memory_info else 50
percent_of(info) ==
  IF info.kind = "sample" THEN info.percent ELSE DEFAULT_MEMORY_PERCENT

\* scrape_salon_details_parallel, lines 306-331: the counters, the forced
\* check whose result is logged, the clean-up of a large run
details_start_memory(n) ==
  /\ mm_pc = "idle"
  /\ mm_n' = n
  /\ mm_last_check_time' = check_memory_usage(TRUE).last
  /\ mm_pc' = "sampled"
  /\ UNCHANGED <<mm_clock, mm_usage, mm_psutil, mm_memory_info, mm_memory_percent,
                 mm_batch_size, beside_mm>>

\* lines 333-340: the check without force, memory_percent and batch_size
details_batch_size ==
  /\ mm_pc = "sampled"
  /\ LET r == check_memory_usage(FALSE)
     IN  /\ mm_memory_info' = r.info
         /\ mm_last_check_time' = r.last
         /\ mm_memory_percent' = percent_of(r.info)
         /\ mm_batch_size' = BatchSize(mm_n, percent_of(r.info))
  /\ mm_pc' = "sized"
  /\ UNCHANGED <<mm_clock, mm_usage, mm_psutil, mm_n, beside_mm>>

\* a second of time.time() passes
clock_tick ==
  /\ mm_clock < MaxClock
  /\ mm_clock' = mm_clock + 1
  /\ UNCHANGED <<mm_pc, mm_last_check_time, mm_usage, mm_psutil, mm_n, mm_memory_info,
                 mm_memory_percent, mm_batch_size, beside_mm>>

\* the memory usage of the host changes
usage_change(percent) ==
  /\ mm_pc # "sized"
  /\ percent # mm_usage
  /\ mm_usage' = percent
  /\ UNCHANGED <<mm_pc, mm_clock, mm_last_check_time, mm_psutil, mm_n, mm_memory_info,
                 mm_memory_percent, mm_batch_size, beside_mm>>

\* memory_monitor = MemoryMonitor(...) at import (last_check_time = 0, long
\* before the clock of the run), on a host where psutil works or fails
InitMemory ==
  /\ InitQuiescent
  /\ InitFirst
  /\ InitNoProgress
  /\ InitNoSessions
  /\ InitNoTasks
  /\ mm_pc = "idle"
  /\ mm_clock = CHECK_INTERVAL
  /\ mm_last_check_time = 0
  /\ mm_usage \in UsagePercents
  /\ mm_psutil \in BOOLEAN
  /\ mm_n = 0
  /\ mm_memory_info = <<>>
  /\ mm_memory_percent = 0
  /\ mm_batch_size = 0

NextMemory ==
  \/ \E n \in ListLengths : details_start_memory(n)
  \/ details_batch_size
  \/ clock_tick
  \/ \E percent \in UsagePercents : usage_change(percent)

SpecMemory == InitMemory /\ [][NextMemory]_vars

\* C34: the batch size of a run is computed from the memory usage sampled
\* for that run, the default of 50 percent is used only when memory cannot be
\* sampled, and the batch size lies between 10 and 2 * CHUNK_SIZE
C34_BatchSizeFromSample ==
  mm_pc = "sized" =>
    /\ mm_psutil => mm_memory_info.kind = "sample"
    /\ mm_psutil => mm_memory_percent = mm_usage
    /\ mm_batch_size = BatchSize(mm_n, mm_memory_percent)
    /\ MIN_BATCH <= mm_batch_size
    /\ mm_batch_size <= 2 * CHUNK_SIZE

\* the positions of the log where HTTPClient.get was called for a listing page
FetchEvents == {k \in 1..Len(bs_log) : bs_log[k].ev = "fetch"}

\* the fetch at position k of the log failed
FetchFailed(k) == ~bs_site[bs_log[k].page].ok

\* the salon URLs the items of page p hold
UrlsOfPage(p) ==
  {normalize_url(bs_site[p].items[i].href) : i \in
     {i \in 1..Len(bs_site[p].items) :
        /\ bs_site[p].items[i].has_href
        /\ ~IsEmptyUrl(normalize_url(bs_site[p].items[i].href))}}

\* C35: when the fetch of a listing page fails during a discovery that is not
\* stopped, whichever page it is, the first one included, every later page of
\* the listing is still fetched, the URLs of the pages that were fetched are
\* returned, and the empty list is returned only when no page with a salon URL
\* could be reached
C35_FailedPageSkipped ==
  (bs_pc = "done" /\ ~ObservedTrue /\ \E k \in FetchEvents : FetchFailed(k)) =>
    /\ \A k \in FetchEvents :
         FetchFailed(k) =>
           \A p \in (bs_log[k].page + 1)..Len(bs_site) :
             \E j \in FetchEvents : j > k /\ bs_log[j].page = p
    /\ \A j \in FetchEvents :
         ~FetchFailed(j) =>
           \A u \in UrlsOfPage(bs_log[j].page) : \E i \in 1..Len(bs_ret) : bs_ret[i] = u
    /\ bs_ret = <<>> =>
         \A p \in 1..Len(bs_site) : ~bs_site[p].ok \/ UrlsOfPage(p) = {}

\* C36: between any two consecutive fetches of listing pages of one discovery
\* a wait of one second takes place, and none precedes the first fetch
C36_WaitBetweenFetches ==
  \A k \in FetchEvents :
    IF \E j \in FetchEvents : j < k
    THEN \E j \in FetchEvents :
           /\ j < k
           /\ \E s \in (j + 1)..(k - 1) : bs_log[s].ev = "sleep"
           /\ \A s \in (j + 1)..(k - 1) : bs_log[s].ev # "fetch"
    ELSE \A s \in 1..(k - 1) : bs_log[s].ev # "sleep"

\* C37: a stop request affects only the run during which it was issued: when
\* the operator starts a new run (handle_start of app.py, after which main()
\* calls scrape_salon_urls and scrape_salon_details_parallel), the stop flag
\* of the orchestrator is not set, so neither the discovery nor the detail
\* tasks of the new run observe a stop that was requested before it
C37_StopFlagClearAtRunStart ==
  [][app_handle_start => ~_stop_event']_vars

\* C38: after every add_area, accepted or rejected, the table in memory and
\* the CSV file hold the same rows; when add_area reports a failure because
\* the file could not be written, the table does not hold the record
C38_TableMatchesFile ==
  am_op = "add_area" =>
    /\ am_csv = to_csv(am_df)
    /\ am_result = <<FALSE, AddFailedMessage>> =>
         \A k \in 1..Len(am_df) : am_df[k] # am_data

(***************************************************************************)
(* app_state_manager.py: the processing state of several sessions of one   *)
(* server process. The module is imported once; every session's            *)
(* processing_state is assigned the module level dict itself               *)
(***************************************************************************)
\* the browser sessions connected to the process
Sessions == {"session1", "session2"}

\* the keyword arguments the handlers pass to update_processing_state
Updates ==
  {[is_processing |-> TRUE, should_stop |-> FALSE, status_message |-> "starting"],
   [is_processing |-> FALSE, should_stop |-> TRUE, status_message |-> "stopped",
    progress |-> 0],
   [is_processing |-> FALSE]}

\* snapshots a progress callback receives
Snapshots == {_get_progress_info(2, 1, 1, 0), _get_progress_info(2, 2, 1, 1)}

\* st.session_state.processing_state of session s: the object it refers to
processing_state_of(s) == IF ss_ref[s] = "PROGRESS_INITIAL_STATE" THEN ss_dict ELSE <<>>

\* the state the calls of session s alone have produced since it was bound
own_state(s) == IF ss_ref[s] = "unset" THEN InitialProcessingState ELSE ss_own[s]

\* init_session_state of a new session: if 'processing_state' not in
\* st.session_state: st.session_state.processing_state = PROGRESS_INITIAL_STATE
init_session_state(s) ==
  /\ ss_ref[s] = "unset"
  /\ ss_ref' = [ss_ref EXCEPT ![s] = "PROGRESS_INITIAL_STATE"]
  /\ ss_own' = [ss_own EXCEPT ![s] = InitialProcessingState]
  /\ UNCHANGED <<ss_dict, beside_ss>>

\* update_processing_state(**upd) in session s: binds the name if it is not
\* bound, then assigns the given items of the dict the name refers to
update_processing_state_call(s, upd) ==
  /\ ss_ref' = [ss_ref EXCEPT ![s] = "PROGRESS_INITIAL_STATE"]
  /\ ss_dict' = update_processing_state(ss_dict, upd)
  /\ ss_own' = [ss_own EXCEPT ![s] = update_processing_state(own_state(s), upd)]
  /\ UNCHANGED beside_ss

\* progress_callback(progress_info) in session s (app_progress_handler.py)
progress_callback_call(s, info) ==
  /\ ss_ref[s] # "unset"
  /\ ss_dict' = progress_callback(ss_dict, info)
  /\ ss_own' = [ss_own EXCEPT ![s] = progress_callback(ss_own[s], info)]
  /\ UNCHANGED <<ss_ref, beside_ss>>

\* reset_processing_state() in session s:
\* st.session_state.processing_state = PROGRESS_INITIAL_STATE
reset_processing_state_call(s) ==
  /\ ss_ref[s] # "unset"
  /\ ss_ref' = [ss_ref EXCEPT ![s] = "PROGRESS_INITIAL_STATE"]
  /\ ss_own' = [ss_own EXCEPT ![s] = InitialProcessingState]
  /\ UNCHANGED <<ss_dict, beside_ss>>

\* the process after the import of app_state_manager, before any session
InitSessions ==
  /\ InitQuiescent
  /\ InitFirst
  /\ InitNoProgress
  /\ InitNoMemory
  /\ InitNoTasks
  /\ ss_dict = InitialProcessingState
  /\ ss_ref = [s \in Sessions |-> "unset"]
  /\ ss_own = [s \in Sessions |-> InitialProcessingState]

NextSessions ==
  \/ \E s \in Sessions : init_session_state(s)
  \/ \E s \in Sessions, upd \in Updates : update_processing_state_call(s, upd)
  \/ \E s \in Sessions, info \in Snapshots : progress_callback_call(s, info)
  \/ \E s \in Sessions : reset_processing_state_call(s)

SpecSessions == InitSessions /\ [][NextSessions]_vars

\* C39: the processing state is private to its session: what a session reads
\* is what its own update_processing_state calls and progress callbacks
\* produced, whatever the other sessions of the process did, and the default
\* values a later session is initialised with never change
C39_SessionsIsolated ==
  /\ \A s \in Sessions :
       ss_ref[s] # "unset" => processing_state_of(s) = ss_own[s]
  /\ ss_dict = InitialProcessingState

(***************************************************************************)
(* LRUCache.get and LRUCache.put of the shared url_cache, statement by     *)
(* statement, called by the worker tasks of _scrape_salon_with_retry with  *)
(* no lock: a task switch can take place between any two statements        *)
(***************************************************************************)
\* calls of get and put in one behaviour
MaxCacheCalls == 4

\* the worker tasks that use the cache at the same time
Tasks == {"task1", "task2"}

\* the caches a program can hold: distinct keys, at most max_size entries
Caches(max_size) ==
  {c \in UNION {[1..n -> [key : Keys, value : {"v1"}]] : n \in 0..max_size} :
     \A i, j \in 1..Len(c) : i # j => c[i].key # c[j].key}

\* self.cache[key] = value: a new key is stored last, a key that is present
\* keeps its place and takes the value
setitem(cache, key, value) ==
  IF contains(cache, key)
  THEN [i \in 1..Len(cache) |->
          IF cache[i].key = key THEN [key |-> key, value |-> value] ELSE cache[i]]
  ELSE Append(cache, [key |-> key, value |-> value])

\* the call of task t ends, normally or with the exception raised at stmt
Returns(t) == rc_pc' = [rc_pc EXCEPT ![t] = "idle"]
Raises(t, stmt) ==
  /\ rc_pc' = [rc_pc EXCEPT ![t] = "idle"]
  /\ rc_failed' = rc_failed \cup {[task |-> t, stmt |-> stmt, key |-> rc_key[t]]}

\* url_cache.get(cache_key) is called by the task
get_call(t, key) ==
  /\ rc_pc[t] = "idle"
  /\ rc_calls < MaxCacheCalls
  /\ rc_calls' = rc_calls + 1
  /\ rc_key' = [rc_key EXCEPT ![t] = key]
  /\ rc_pc' = [rc_pc EXCEPT ![t] = "get_test"]
  /\ UNCHANGED <<lru, lru_max, lru_hits, lru_misses, rc_value, rc_failed, beside_rc>>

\* if key not in self.cache: self.misses += 1; return None
get_test(t) ==
  /\ rc_pc[t] = "get_test"
  /\ IF contains(lru, rc_key[t])
     THEN /\ rc_pc' = [rc_pc EXCEPT ![t] = "get_pop"]
          /\ UNCHANGED lru_misses
     ELSE /\ Returns(t)
          /\ lru_misses' = lru_misses + 1
  /\ UNCHANGED <<lru, lru_max, lru_hits, rc_key, rc_value, rc_calls, rc_failed, beside_rc>>

\* self.hits += 1; value = self.cache.pop(key): KeyError when the key is gone
get_pop(t) ==
  /\ rc_pc[t] = "get_pop"
  /\ lru_hits' = lru_hits + 1
  /\ IF contains(lru, rc_key[t])
     THEN /\ lru' = pop(lru, rc_key[t]).cache
          /\ rc_value' = [rc_value EXCEPT ![t] = pop(lru, rc_key[t]).value]
          /\ rc_pc' = [rc_pc EXCEPT ![t] = "get_store"]
          /\ UNCHANGED rc_failed
     ELSE /\ Raises(t, "get: self.cache.pop(key)")
          /\ UNCHANGED <<lru, rc_value>>
  /\ UNCHANGED <<lru_max, lru_misses, rc_key, rc_calls, beside_rc>>

\* self.cache[key] = value; return value
get_store(t) ==
  /\ rc_pc[t] = "get_store"
  /\ lru' = setitem(lru, rc_key[t], rc_value[t])
  /\ Returns(t)
  /\ UNCHANGED <<lru_max, lru_hits, lru_misses, rc_key, rc_value, rc_calls, rc_failed,
                 beside_rc>>

\* url_cache.put(cache_key, result) is called by the task
put_call(t, key, value) ==
  /\ rc_pc[t] = "idle"
  /\ rc_calls < MaxCacheCalls
  /\ rc_calls' = rc_calls + 1
  /\ rc_key' = [rc_key EXCEPT ![t] = key]
  /\ rc_value' = [rc_value EXCEPT ![t] = value]
  /\ rc_pc' = [rc_pc EXCEPT ![t] = "put_test"]
  /\ UNCHANGED <<lru, lru_max, lru_hits, lru_misses, rc_failed, beside_rc>>

\* if key in self.cache:
put_test(t) ==
  /\ rc_pc[t] = "put_test"
  /\ rc_pc' = [rc_pc EXCEPT ![t] = IF contains(lru, rc_key[t]) THEN "put_pop"
                                   ELSE "put_len"]
  /\ UNCHANGED <<lru, lru_max, lru_hits, lru_misses, rc_key, rc_value, rc_calls,
                 rc_failed, beside_rc>>

\* self.cache.pop(key): KeyError when the key is gone
put_pop(t) ==
  /\ rc_pc[t] = "put_pop"
  /\ IF contains(lru, rc_key[t])
     THEN /\ lru' = pop(lru, rc_key[t]).cache
          /\ rc_pc' = [rc_pc EXCEPT ![t] = "put_len"]
          /\ UNCHANGED rc_failed
     ELSE /\ Raises(t, "put: self.cache.pop(key)")
          /\ UNCHANGED lru
  /\ UNCHANGED <<lru_max, lru_hits, lru_misses, rc_key, rc_value, rc_calls, beside_rc>>

\* if len(self.cache) >= self.max_size and self.max_size > 0:
put_len(t) ==
  /\ rc_pc[t] = "put_len"
  /\ rc_pc' = [rc_pc EXCEPT ![t] = IF Len(lru) >= lru_max /\ lru_max > 0
                                   THEN "put_popitem" ELSE "put_store"]
  /\ UNCHANGED <<lru, lru_max, lru_hits, lru_misses, rc_key, rc_value, rc_calls,
                 rc_failed, beside_rc>>

\* self.cache.popitem(last=False): KeyError when the dictionary is empty
put_popitem(t) ==
  /\ rc_pc[t] = "put_popitem"
  /\ IF lru # <<>>
     THEN /\ lru' = Tail(lru)
          /\ rc_pc' = [rc_pc EXCEPT ![t] = "put_store"]
          /\ UNCHANGED rc_failed
     ELSE /\ Raises(t, "put: self.cache.popitem(last=False)")
          /\ UNCHANGED lru
  /\ UNCHANGED <<lru_max, lru_hits, lru_misses, rc_key, rc_value, rc_calls, beside_rc>>

\* if self.max_size > 0: self.cache[key] = value
put_store(t) ==
  /\ rc_pc[t] = "put_store"
  /\ lru' = IF lru_max > 0 THEN setitem(lru, rc_key[t], rc_value[t]) ELSE lru
  /\ Returns(t)
  /\ UNCHANGED <<lru_max, lru_hits, lru_misses, rc_key, rc_value, rc_calls, rc_failed,
                 beside_rc>>

\* a cache of max_size 1 or MaxSize with any content, and two tasks about to
\* use it
InitCacheRace ==
  /\ InitQuiescent
  /\ InitSecrets
  /\ InitNoAreaManager
  /\ InitNoEngine
  /\ InitNoRateLimiter
  /\ InitNoDiscovery
  /\ InitNoRequest
  /\ InitNoProgress
  /\ InitNoMemory
  /\ InitNoSessions
  /\ lru_max \in 1..MaxSize
  /\ lru \in Caches(lru_max)
  /\ lru_hits = 0
  /\ lru_misses = 0
  /\ lru_log = <<>>
  /\ rc_pc = [t \in Tasks |-> "idle"]
  /\ rc_key = [t \in Tasks |-> "A"]
  /\ rc_value = [t \in Tasks |-> None]
  /\ rc_calls = 0
  /\ rc_failed = {}

NextCacheRace ==
  \/ \E t \in Tasks, key \in Keys : get_call(t, key)
  \/ \E t \in Tasks : get_test(t)
  \/ \E t \in Tasks : get_pop(t)
  \/ \E t \in Tasks : get_store(t)
  \/ \E t \in Tasks, key \in Keys : put_call(t, key, "v2")
  \/ \E t \in Tasks : put_test(t)
  \/ \E t \in Tasks : put_pop(t)
  \/ \E t \in Tasks : put_len(t)
  \/ \E t \in Tasks : put_popitem(t)
  \/ \E t \in Tasks : put_store(t)

SpecCacheRace == InitCacheRace /\ [][NextCacheRace]_vars

\* C40: with the steps of get and put of several worker tasks interleaved,
\* the cache never holds more than max_size entries, and no get or put fails
\* because another task removed the key between the membership test and the
\* removal of that key
C40_UnlockedCacheSafe ==
  /\ Len(lru) <= lru_max
  /\ \A f \in rc_failed : f.stmt \notin {"get: self.cache.pop(key)",
                                          "put: self.cache.pop(key)"}

====
